---- MODULE Spec2Model ----
(***************************************************************************)
(* A model of the NestJS/Angular documentation MCP service:                *)
(*   - the Documentation Index (WebDocumentationRepository): the           *)
(*     framework -> source -> section -> topic hierarchy, its lazy tree    *)
(*     discovery and its read-through topic content;                       *)
(*   - the File Classifier, the Analyzer and the Fix Suggestion Composer   *)
(*     (TsMorphCodeAnalysisRepository) and the tools built on them;        *)
(*   - the Region Extractor (extractVisibleRegion).                        *)
(* Strings are TLA+ strings; the string helpers below compute what the     *)
(* JavaScript string methods used by the code compute.                     *)
(***************************************************************************)
EXTENDS Integers, Sequences, FiniteSets, TLC

(***************************************************************************)
(* String helpers: the methods of String.prototype the code uses           *)
(***************************************************************************)

\* s.includes(sub)
Includes(s, sub) ==
  \E i \in 1..(Len(s) - Len(sub) + 1) : SubSeq(s, i, i + Len(sub) - 1) = sub

\* s.startsWith(p)
StartsWith(s, p) == Len(s) >= Len(p) /\ SubSeq(s, 1, Len(p)) = p

\* s.endsWith(p)
EndsWith(s, p) == Len(s) >= Len(p) /\ SubSeq(s, Len(s) - Len(p) + 1, Len(s)) = p

\* s.indexOf(sub) + 1, and 0 when sub does not occur
IndexOf(s, sub) ==
  IF Includes(s, sub)
  THEN CHOOSE i \in 1..(Len(s) - Len(sub) + 1) :
         /\ SubSeq(s, i, i + Len(sub) - 1) = sub
         /\ \A j \in 1..(i - 1) : SubSeq(s, j, j + Len(sub) - 1) # sub
  ELSE 0

\* the i-th character of s, as a string of length 1
CharAt(s, i) == SubSeq(s, i, i)

UpperChars == <<"A", "B", "C", "D", "E", "F", "G", "H", "I", "J", "K", "L", "M",
                "N", "O", "P", "Q", "R", "S", "T", "U", "V", "W", "X", "Y", "Z">>
LowerChars == <<"a", "b", "c", "d", "e", "f", "g", "h", "i", "j", "k", "l", "m",
                "n", "o", "p", "q", "r", "s", "t", "u", "v", "w", "x", "y", "z">>

LowerChar(c) ==
  IF \E k \in 1..26 : UpperChars[k] = c
  THEN LowerChars[CHOOSE k \in 1..26 : UpperChars[k] = c]
  ELSE c

\* s.toLowerCase()
RECURSIVE ToLowerCase(_)
ToLowerCase(s) ==
  IF Len(s) = 0 THEN ""
  ELSE LowerChar(CharAt(s, 1)) \o ToLowerCase(SubSeq(s, 2, Len(s)))

\* the characters the regular expression class \s matches
WhiteSpace == {" ", "\n", "\r", "\t"}

\* c is matched by \s
IsSpace(c) == c \in WhiteSpace

\* s.replace(/\s+/g, '-'): every maximal run of white space becomes one '-'
RECURSIVE ReplaceWsRuns(_)
ReplaceWsRuns(s) ==
  IF Len(s) = 0 THEN ""
  ELSE IF IsSpace(CharAt(s, 1))
       THEN IF Len(s) >= 2 /\ IsSpace(CharAt(s, 2))
            THEN ReplaceWsRuns(SubSeq(s, 2, Len(s)))
            ELSE "-" \o ReplaceWsRuns(SubSeq(s, 2, Len(s)))
       ELSE CharAt(s, 1) \o ReplaceWsRuns(SubSeq(s, 2, Len(s)))

\* s.replace(sub, rep) with a string pattern: the first occurrence only
ReplaceFirst(s, sub, rep) ==
  LET i == IndexOf(s, sub) IN
    IF i = 0 THEN s
    ELSE SubSeq(s, 1, i - 1) \o rep \o SubSeq(s, i + Len(sub), Len(s))

\* s.trim()
RECURSIVE TrimStart(_)
TrimStart(s) ==
  IF Len(s) > 0 /\ IsSpace(CharAt(s, 1)) THEN TrimStart(SubSeq(s, 2, Len(s))) ELSE s

RECURSIVE TrimEnd(_)
TrimEnd(s) ==
  IF Len(s) > 0 /\ IsSpace(CharAt(s, Len(s))) THEN TrimEnd(SubSeq(s, 1, Len(s) - 1)) ELSE s

Trim(s) == TrimEnd(TrimStart(s))

\* the line terminators, which `.' of a regular expression does not match
LineTerminators == {"\n", "\r"}

\* the length of the longest prefix of s whose characters are all in
\* `chars' (inside = TRUE) or all outside it (inside = FALSE)
RunLength(s, chars, inside) ==
  CHOOSE n \in 0..Len(s) :
    /\ \A i \in 1..n : (CharAt(s, i) \in chars) = inside
    /\ n = Len(s) \/ (CharAt(s, n + 1) \in chars) # inside

UpperChar(c) ==
  IF \E k \in 1..26 : LowerChars[k] = c
  THEN UpperChars[CHOOSE k \in 1..26 : LowerChars[k] = c]
  ELSE c

\* s.replace(/-/g, ' ')
RECURSIVE DashesToSpaces(_)
DashesToSpaces(s) ==
  IF Len(s) = 0 THEN ""
  ELSE (IF CharAt(s, 1) = "-" THEN " " ELSE CharAt(s, 1))
         \o DashesToSpaces(SubSeq(s, 2, Len(s)))

\* s.replace(/^\w|\s\w/g, c => c.toUpperCase()), from the i-th character on:
\* a character is put in upper case when it opens the string or follows
\* white space
RECURSIVE CapitalizeFrom(_, _)
CapitalizeFrom(s, i) ==
  IF i > Len(s) THEN ""
  ELSE (IF i = 1 \/ IsSpace(CharAt(s, i - 1))
        THEN UpperChar(CharAt(s, i)) ELSE CharAt(s, i))
         \o CapitalizeFrom(s, i + 1)

\* the position i opens a line of s (^ under the m flag)
LineStart(s, i) == i = 1 \/ CharAt(s, i - 1) \in LineTerminators

\* the characters of s from position i up to the end of its line
RestOfLine(s, i) ==
  SubSeq(s, i, i + RunLength(SubSeq(s, i, Len(s)), LineTerminators, FALSE) - 1)

\* the least element of a non-empty set of numbers
Least(S) == CHOOSE i \in S : \A j \in S : i <= j

\* the greatest element of a non-empty set of numbers
Greatest(S) == CHOOSE i \in S : \A j \in S : i >= j

(***************************************************************************)
(* State                                                                   *)
(***************************************************************************)
VARIABLES
  \* Documentation Index (one WebDocumentationRepository instance)
  sections,      \* source id -> the Sections attached to that Source, in order
  pc,            \* invocation -> the await it is suspended at, or idle / done
  call,          \* invocation -> the operation it runs and its arguments
  walk,          \* invocation -> the locals of its tree-discovery walk
  result,        \* invocation -> what its last operation returned
  ncalls,        \* operations started so far
  rootListings,  \* history: source id -> root listings requested so far
  returns,       \* history: source id -> getDocumentationSources calls returned
  retFull,       \* history: source id -> one of them returned with a Section attached
  servedFull,    \* history: the <<source id, topic id>> returned with content
  addressed,     \* the framework the callers of this behaviour address
  \* Code Analyzer (one TsMorphCodeAnalysisRepository instance)
  file,          \* the Code File handed to the analyzer
  framework,     \* the framework argument of analyzeFile
  outs,          \* the results of successive detectFileType applications
  reported,      \* what the detectFrameworkAndFileType tool answered
  analysis,      \* the Analysis Result of analyzeFile, and how the walk ended
  suggested,     \* what generateFixSuggestions returned, and what it asked
  \* Named-region extraction
  regText,       \* the file content handed to extractVisibleRegion
  regName,       \* the region name
  regOuts,       \* the results of successive extractions
  docText,       \* the document handed to extractBestPractices
  docRuns,       \* the documents extracted from so far, each with its passages
  \* analyzeProject tool (one invocation)
  prjPc,         \* where the invocation is: idle, analyzing, done
  prjFiles,      \* the Code Files built from the files argument
  prjFramework,  \* the framework argument
  prjResults,    \* the Analysis Results collected so far, in file order
  prjReply,      \* the reply of the tool
  \* searchTopics and the getBestPractices tool (per invocation)
  scan,          \* invocation -> the locals of its loop over the topics
  reply,         \* invocation -> the reply of the getBestPractices tool
  nqueries,      \* searches and getBestPractices tool invocations started so far
  \* extractCodeFromDocumentationPath (per invocation)
  ext,           \* invocation -> the arguments, the locals and the return value
  \* extractMultipleCodeSnippets tool (one invocation)
  bat,           \* the arguments, the locals of the loop, the tasks and the reply
  \* extractAngularCodeSnippet tool (one invocation)
  snip           \* the arguments, the extraction awaited and the reply

idxVars == <<sections, pc, call, walk, result, ncalls, rootListings, returns,
             retFull, servedFull, addressed>>

anaVars == <<file, framework, outs, reported, analysis, suggested>>

regVars == <<regText, regName, regOuts, docText, docRuns>>

prjVars == <<prjPc, prjFiles, prjFramework, prjResults, prjReply>>

\* the state of the tools that run on top of the two repositories
qryVars == <<scan, reply, nqueries>>

extVars == <<ext>>

batVars == <<bat, snip>>

toolVars == <<prjVars, qryVars, extVars, batVars>>

vars == <<idxVars, anaVars, regVars, toolVars>>

(***************************************************************************)
(* Documentation Index: data                                               *)
(***************************************************************************)

\* the operations one behaviour may start
MaxCalls == 3

\* the tool invocations that may overlap (suspended at a remote fetch)
Procs == {"i1", "i2"}

\* frameworkSources: framework -> the ids of its Sources
FrameworkSources ==
  ("nestjs" :> <<"nestjs-github">>) @@ ("angular" :> <<"angular-github">>)

SourceIds == {"nestjs-github", "angular-github"}

\* the framework identifiers callers pass: the two Sources share no state,
\* and the callers of one behaviour address one framework, by its name in
\* either case or by a name that is no framework's
FrameworkInputs(fw) ==
  IF fw = "nestjs" THEN {"nestjs", "NestJS", "react"}
  ELSE {"angular", "Angular", "constructor"}

\* frameworkSources is an object literal: a key it does not own is looked up
\* on Object.prototype
ObjectPrototypeKeys == {"constructor", "__proto__"}

\* the keys of the local record of logical Angular sections, in insertion order
LogicalKeys == <<"fundamentals", "components", "dependency-injection", "forms",
                 "routing", "best-practices", "other">>

LogicalSectionId(key) == "section-" \o key

\* the directory names fetched into a logical section
KnownAngularDirs == {"components", "forms", "routing", "di", "style-guide"}

Dir(n)  == [type |-> "dir", name |-> n]
File(n) == [type |-> "file", name |-> n]

\* what the remote may list at a Source's root
NestRootListings ==
  { <<>>,
    <<Dir("guide"), Dir("cli")>>,
    <<File("readme.md"), Dir("guide")>> }

AngularRootListings ==
  { <<>>,
    <<Dir("components"), File("c.md")>>,
    <<Dir("Other"), File("form.md"), File("n.txt")>> }

\* what the remote may list in a directory
DirListings ==
  { <<>>,
    <<File("c.md"), File("n.txt"), Dir("sub")>>,
    <<File("A b.md"), File("a-b.md")>> }

\* an axios.get of a listing: rejected, resolved with something that is no
\* array, or resolved with an array of items
ListingResponses(listings) ==
  { [status |-> "error", isArray |-> FALSE, items |-> <<>>],
    [status |-> "ok", isArray |-> FALSE, items |-> <<>>] }
  \cup { [status |-> "ok", isArray |-> TRUE, items |-> l] : l \in listings }

\* the text of a remote markdown file
DocTexts == {"a Component\n- never b"}

\* fetchRawGitHubContent: response.data (a string, or what axios parsed out of
\* it), or '' when the request failed
RawContents ==
  { [isString |-> TRUE, text |-> t] : t \in DocTexts \cup {""} }
  \cup { [isString |-> FALSE, text |-> ""] }

\* the identifiers callers pass to topic()
TopicIdInputs == {"topic-c", "topic-none"}

NoTopic == [id |-> "", title |-> "", url |-> "", content |-> ""]

NoWalk == [src |-> "", items |-> <<>>, cur |-> [id |-> "", topics |-> <<>>],
           curKey |-> "", curDir |-> "", files |-> <<>>, logical |-> <<>>]

NoCall == [op |-> "", framework |-> "", sourceId |-> "", topicId |-> "",
           found |-> NoTopic, walked |-> FALSE, sawFull |-> FALSE]

NoResult == [kind |-> "", sources |-> <<>>, topic |-> NoTopic]

Range(f) == { f[i] : i \in DOMAIN f }

(***************************************************************************)
(* Documentation Index: helpers                                            *)
(***************************************************************************)

\* `topic-${item.name.toLowerCase().replace(/\s+/g, '-').replace('.md', '')}`
TopicId(name) ==
  "topic-" \o ReplaceFirst(ReplaceWsRuns(ToLowerCase(name)), ".md", "")

\* `section-${item.name.toLowerCase().replace(/\s+/g, '-')}`
SectionId(name) == "section-" \o ReplaceWsRuns(ToLowerCase(name))

\* item.type === 'file' && item.name.endsWith('.md')
IsMarkdownFile(item) == item.type = "file" /\ EndsWith(item.name, ".md")

\* item.name.replace('.md', '').replace(/-/g, ' ')
\*          .replace(/^\w|\s\w/g, c => c.toUpperCase())
FormatTitle(name) ==
  CapitalizeFrom(DashesToSpaces(ReplaceFirst(name, ".md", "")), 1)

\* /^#\s+(.+)$/m and /^##\s+(.+)$/m, tried just after the hashes at position
\* j: where the capture starts, or 0.  \s+ takes the longest run of white
\* space that leaves (.+) a character of the same line to start with
HeadingCapture(s, j) ==
  LET n  == RunLength(SubSeq(s, j, Len(s)), WhiteSpace, TRUE)
      ks == { k \in 1..n : j + k <= Len(s) /\ CharAt(s, j + k) \notin LineTerminators }
  IN  IF ks = {} THEN 0 ELSE j + Greatest(ks)

\* the positions where the heading expression matches
HeadingStarts(s, hashes) ==
  { i \in 1..Len(s) : /\ LineStart(s, i)
                      /\ StartsWith(SubSeq(s, i, Len(s)), hashes)
                      /\ HeadingCapture(s, i + Len(hashes)) # 0 }

\* the capture of the first match of the heading expression
HeadingText(s, hashes) ==
  RestOfLine(s, HeadingCapture(s, Least(HeadingStarts(s, hashes)) + Len(hashes)))

DecorativeOpen == "<docs-decorative-header"

DecorativeAttr == "title=\""

\* /<docs-decorative-header\s+title="([^"]+)"/ tried at position i: where
\* the capture starts, or 0
DecorativeCapture(s, i) ==
  LET j == i + Len(DecorativeOpen)
      t == j + RunLength(SubSeq(s, j, Len(s)), WhiteSpace, TRUE)
      c == t + Len(DecorativeAttr)
      m == RunLength(SubSeq(s, c, Len(s)), {"\""}, FALSE)
  IN  IF /\ StartsWith(SubSeq(s, i, Len(s)), DecorativeOpen)
         /\ t > j
         /\ StartsWith(SubSeq(s, t, Len(s)), DecorativeAttr)
         /\ m >= 1 /\ c + m <= Len(s)
      THEN c ELSE 0

DecorativeStarts(s) == { i \in 1..Len(s) : DecorativeCapture(s, i) # 0 }

\* the capture of the first match of the decorative-header expression
DecorativeText(s) ==
  LET c == DecorativeCapture(s, Least(DecorativeStarts(s)))
  IN  SubSeq(s, c, c + RunLength(SubSeq(s, c, Len(s)), {"\""}, FALSE) - 1)

\* /^(.+)$/m: the positions that open a line that is not empty
FilledLineStarts(s) ==
  { i \in 1..Len(s) : LineStart(s, i) /\ CharAt(s, i) \notin LineTerminators }

\* extractTitleFromMarkdown; null is rendered as "", which the callers, who
\* test the result with ||, treat alike
extractTitleFromMarkdown(content) ==
  IF HeadingStarts(content, "#") # {} THEN Trim(HeadingText(content, "#"))
  ELSE IF DecorativeStarts(content) # {} THEN Trim(DecorativeText(content))
  ELSE IF HeadingStarts(content, "##") # {} THEN Trim(HeadingText(content, "##"))
  ELSE IF FilledLineStarts(content) # {}
  THEN Trim(RestOfLine(content, Least(FilledLineStarts(content))))
  ELSE ""

\* this.extractTitleFromMarkdown(content) || <the formatted file name>; the
\* NestJS walk and the fallback of the Angular walk, whose topics carry no
\* content, take the formatted file name
TopicTitle(name, content) ==
  IF extractTitleFromMarkdown(content) # "" THEN extractTitleFromMarkdown(content)
  ELSE FormatTitle(name)

\* new DocumentationTopic(id, title, item.html_url, content, [], ...)
NewTopic(dir, name, content) ==
  [id |-> TopicId(name), title |-> TopicTitle(name, content),
   url |-> dir \o "/" \o name, content |-> content]

\* a walk that attaches every section, whatever it holds
ShouldAttach_Always(section) == TRUE

\* "Only add non-empty sections": section.getTopics().length > 0
ShouldAttach(section) == Len(section.topics) > 0

\* source.addSection(section), guarded by ShouldAttach
AttachIfNonEmpty(secs, section) ==
  IF ShouldAttach(section) THEN Append(secs, section) ELSE secs

\* fetchNestJSGitHubTopics: one content-empty topic per markdown file listed
NestTopics(dir, resp) ==
  IF resp.status = "ok" /\ resp.isArray
  THEN LET md == SelectSeq(resp.items, IsMarkdownFile)
       IN  [i \in 1..Len(md) |-> NewTopic(dir, md[i].name, "")]
  ELSE <<>>

\* the root items of the NestJS loop from the next directory on
RECURSIVE DropUntilDir(_)
DropUntilDir(items) ==
  IF items = <<>> \/ Head(items).type = "dir" THEN items
  ELSE DropUntilDir(Tail(items))

\* the root items of the Angular loop from the next directory or markdown file on
RECURSIVE DropIgnored(_)
DropIgnored(items) ==
  IF items = <<>> \/ Head(items).type = "dir" \/ IsMarkdownFile(Head(items))
  THEN items
  ELSE DropIgnored(Tail(items))

\* the key of the logical section a known directory is fetched into, "" for
\* a directory that becomes a section of its own
AngularDirKey(name) ==
  LET dirName == ToLowerCase(name) IN
    IF dirName \in KnownAngularDirs
    THEN IF dirName = "di" THEN "dependency-injection"
         ELSE IF dirName = "style-guide" THEN "best-practices"
         ELSE dirName
    ELSE ""

\* "Categorize based on content or filename": the key of the target section
AngularBucket(content, name) ==
  LET lowerContent  == ToLowerCase(content)
      lowerFilename == ToLowerCase(name)
  IN  IF Includes(lowerContent, "component") \/ Includes(lowerFilename, "component")
      THEN "components"
      ELSE IF Includes(lowerContent, "dependency injection") \/ Includes(lowerFilename, "inject")
      THEN "dependency-injection"
      ELSE IF Includes(lowerContent, "form") \/ Includes(lowerFilename, "form")
      THEN "forms"
      ELSE IF \/ Includes(lowerContent, "router") \/ Includes(lowerContent, "routing")
              \/ Includes(lowerFilename, "route") \/ Includes(lowerFilename, "navigation")
      THEN "routing"
      ELSE IF \/ Includes(lowerContent, "best practice") \/ Includes(lowerContent, "style guide")
              \/ Includes(lowerFilename, "best") \/ Includes(lowerFilename, "style")
      THEN "best-practices"
      ELSE IF \/ StartsWith(lowerFilename, "introduction")
              \/ StartsWith(lowerFilename, "getting-started")
              \/ StartsWith(lowerFilename, "overview")
              \/ StartsWith(lowerFilename, "concept")
      THEN "fundamentals"
      ELSE "other"

\* the local record of logical sections, no topic in any
EmptyLogical == [k \in Range(LogicalKeys) |-> <<>>]

\* "Add non-empty sections to the source", in the order of the record's keys
AttachLogical(secs, logical) ==
  secs \o SelectSeq([i \in 1..Len(LogicalKeys) |->
                       [id |-> LogicalSectionId(LogicalKeys[i]),
                        topics |-> logical[LogicalKeys[i]]]],
                    ShouldAttach)

\* the topics of a Source, in section order then topic order
RECURSIVE Flatten(_)
Flatten(secs) ==
  IF secs = <<>> THEN <<>> ELSE Head(secs).topics \o Flatten(Tail(secs))

\* the loops of getTopicById: the first topic of the source with the id
FindTopic(sourceId, topicId) ==
  IF sourceId \in SourceIds /\ \E t \in Range(Flatten(sections[sourceId])) : t.id = topicId
  THEN LET all == Flatten(sections[sourceId])
           i   == CHOOSE k \in 1..Len(all) :
                    all[k].id = topicId /\ \A j \in 1..(k - 1) : all[j].id # topicId
       IN  all[i]
  ELSE NoTopic

(***************************************************************************)
(* Documentation Index: operations.  One action per synchronous stretch    *)
(* of code: from a call, or from the resolution of an awaited fetch, up to *)
(* the next await or the return.                                           *)
(***************************************************************************)

IdxInit ==
  /\ sections = [s \in SourceIds |-> <<>>]
  /\ pc = [p \in Procs |-> "idle"]
  /\ call = [p \in Procs |-> NoCall]
  /\ walk = [p \in Procs |-> NoWalk]
  /\ result = [p \in Procs |-> NoResult]
  /\ ncalls = 0
  /\ rootListings = [s \in SourceIds |-> 0]
  /\ returns = [s \in SourceIds |-> 0]
  /\ retFull = [s \in SourceIds |-> FALSE]
  /\ servedFull = {}
  /\ addressed \in DOMAIN FrameworkSources

\* the index at rest, for the behaviours of the other components
IdxParked == IdxInit /\ addressed = "nestjs"

\* an invocation starts an operation when it runs none
CanStart(p) == pc[p] \in {"idle", "done"} /\ ncalls < MaxCalls

\* fetchSections: source.getId().includes('nestjs'), else the Angular walk
IsNestSource(s) == Includes(s, "nestjs")

\* a memo test that always asks for a walk
SectionsNotLoaded_Always(s) == TRUE

\* "If the sections are not yet loaded": source.getSections().length === 0
SectionsNotLoaded(s) == Len(sections[s]) = 0

\* getDocumentationSources returns the sources of the framework
ReturnSources(p, s, secs) ==
  /\ sections' = secs
  /\ pc' = [pc EXCEPT ![p] = IF call'[p].op = "practices" THEN "sourcesReturned"
                              ELSE IF call'[p].op = "extract" THEN "extSources"
                              ELSE "done"]
  /\ walk' = [walk EXCEPT ![p] = NoWalk]
  /\ result' = [result EXCEPT ![p] =
                  [kind |-> "sources", sources |-> <<s>>, topic |-> NoTopic]]
  /\ returns' = [returns EXCEPT ![s] = @ + 1]
  /\ retFull' = [retFull EXCEPT ![s] = @ \/ Len(secs[s]) > 0]

\* fetchNestJSGitHubSections, the loop over the root items: up to the await
\* of the next directory's listing, or to the end of the loop
NestContinue(p, s, items, secs) ==
  LET rest == DropUntilDir(items) IN
    IF rest = <<>>
    THEN ReturnSources(p, s, secs)
    ELSE /\ sections' = secs
         /\ pc' = [pc EXCEPT ![p] = "listDir"]
         /\ walk' = [walk EXCEPT ![p] =
                       [src |-> s, items |-> Tail(rest),
                        cur |-> [id |-> SectionId(Head(rest).name), topics |-> <<>>],
                        curKey |-> "", curDir |-> Head(rest).name,
                        files |-> <<>>, logical |-> <<>>]]
         /\ UNCHANGED <<result, returns, retFull>>

\* fetchAngularGitHubSections, the loop over the root items: up to the next
\* await (a directory's listing, a top-level file's content), or to the end
\* of the loop, where the non-empty logical sections are attached
AngularContinue(p, s, items, logical, secs) ==
  LET rest == DropIgnored(items) IN
    IF rest = <<>>
    THEN ReturnSources(p, s, [secs EXCEPT ![s] = AttachLogical(@, logical)])
    ELSE /\ sections' = secs
         /\ UNCHANGED <<result, returns, retFull>>
         /\ IF Head(rest).type = "dir"
            THEN /\ pc' = [pc EXCEPT ![p] = "listDir"]
                 /\ walk' = [walk EXCEPT ![p] =
                      [src |-> s, items |-> Tail(rest),
                       cur |-> IF AngularDirKey(Head(rest).name) = ""
                               THEN [id |-> SectionId(Head(rest).name), topics |-> <<>>]
                               ELSE NoWalk.cur,
                       curKey |-> AngularDirKey(Head(rest).name),
                       curDir |-> Head(rest).name,
                       files |-> <<>>, logical |-> logical]]
            ELSE /\ pc' = [pc EXCEPT ![p] = "fetchFile"]
                 /\ walk' = [walk EXCEPT ![p] =
                      [src |-> s, items |-> Tail(rest), cur |-> NoWalk.cur,
                       curKey |-> "", curDir |-> "",
                       files |-> <<Head(rest)>>, logical |-> logical]]

\* fetchAngularDirectoryTopics, the loop over the directory's markdown files:
\* up to the await of the next file's content, or to the end of the loop,
\* where a directory that is a section of its own is attached if non-empty
AngularDirContinue(p, s, files, cur, logical, secs) ==
  IF files = <<>>
  THEN AngularContinue(p, s, walk[p].items, logical,
                       IF walk[p].curKey = ""
                       THEN [secs EXCEPT ![s] = AttachIfNonEmpty(@, cur)]
                       ELSE secs)
  ELSE /\ sections' = secs
       /\ pc' = [pc EXCEPT ![p] = "fetchDirFile"]
       /\ walk' = [walk EXCEPT ![p] =
                     [@ EXCEPT !.files = files, !.cur = cur, !.logical = logical]]
       /\ UNCHANGED <<result, returns, retFull>>

\* getDocumentationSources(framework), called by operation op, up to its
\* first await or its return
EnterSources(p, op, fw) ==
  /\ UNCHANGED <<servedFull, addressed, anaVars, regVars>>
  /\ LET nf == ToLowerCase(fw)
         c  == [NoCall EXCEPT !.op = op, !.framework = nf]
     IN  IF nf \notin DOMAIN FrameworkSources
         THEN /\ call' = [call EXCEPT ![p] = c]
              /\ pc' = [pc EXCEPT ![p] =
                          IF nf \in ObjectPrototypeKeys THEN "done"
                          ELSE IF op = "practices" THEN "sourcesReturned"
                          ELSE IF op = "extract" THEN "extSources"
                          ELSE "done"]
              /\ walk' = [walk EXCEPT ![p] = NoWalk]
              /\ result' = [result EXCEPT ![p] =
                   [NoResult EXCEPT !.kind =
                      IF nf \in ObjectPrototypeKeys THEN "throw" ELSE "sources"]]
              /\ UNCHANGED <<sections, rootListings, returns, retFull>>
         ELSE LET s == FrameworkSources[nf][1] IN
              IF SectionsNotLoaded(s)
              THEN /\ call' = [call EXCEPT ![p] = [c EXCEPT !.walked = TRUE]]
                   /\ pc' = [pc EXCEPT ![p] = "listRoot"]
                   /\ walk' = [walk EXCEPT ![p] = [NoWalk EXCEPT !.src = s]]
                   /\ result' = [result EXCEPT ![p] = NoResult]
                   /\ rootListings' = [rootListings EXCEPT ![s] = @ + 1]
                   /\ UNCHANGED <<sections, returns, retFull>>
              ELSE /\ call' = [call EXCEPT ![p] = c]
                   /\ ReturnSources(p, s, sections)
                   /\ UNCHANGED rootListings

\* an invocation starts an operation that calls getDocumentationSources
StartSources(p, op, fw) ==
  /\ CanStart(p)
  /\ ncalls' = ncalls + 1
  /\ EnterSources(p, op, fw)

\* an invocation calls getDocumentationSources(framework)
CallSources(p, fw) == StartSources(p, "sources", fw) /\ UNCHANGED toolVars

\* the listing of the Source's root resolves or is rejected
RootListed(p, resp) ==
  /\ pc[p] = "listRoot"
  /\ UNCHANGED <<call, ncalls, rootListings, servedFull, addressed, anaVars, regVars, toolVars>>
  /\ LET s == walk[p].src IN
       /\ resp \in ListingResponses(IF IsNestSource(s) THEN NestRootListings
                                    ELSE AngularRootListings)
       /\ IF resp.status = "ok" /\ resp.isArray
          THEN IF IsNestSource(s)
               THEN NestContinue(p, s, resp.items, sections)
               ELSE AngularContinue(p, s, resp.items, EmptyLogical, sections)
          ELSE ReturnSources(p, s, sections)

\* the listing of a directory resolves or is rejected
DirListed(p, resp) ==
  /\ pc[p] = "listDir"
  /\ UNCHANGED <<call, ncalls, rootListings, servedFull, addressed, anaVars, regVars, toolVars>>
  /\ LET w == walk[p] IN
       IF IsNestSource(w.src)
       THEN NestContinue(p, w.src, w.items,
              [sections EXCEPT ![w.src] =
                 AttachIfNonEmpty(@, [w.cur EXCEPT !.topics = NestTopics(w.curDir, resp)])])
       ELSE AngularDirContinue(p, w.src,
              IF resp.status = "ok" /\ resp.isArray
              THEN SelectSeq(resp.items, IsMarkdownFile) ELSE <<>>,
              w.cur, w.logical, sections)

\* the content of a file of an Angular directory arrives: a topic with that
\* content, or the content-empty fallback topic when processing it throws
DirFileFetched(p, raw) ==
  /\ pc[p] = "fetchDirFile"
  /\ UNCHANGED <<call, ncalls, rootListings, servedFull, addressed, anaVars, regVars, toolVars>>
  /\ LET w == walk[p]
         t == NewTopic(w.curDir, Head(w.files).name,
                       IF raw.isString THEN raw.text ELSE "")
     IN  AngularDirContinue(p, w.src, Tail(w.files),
           IF w.curKey = "" THEN [w.cur EXCEPT !.topics = Append(@, t)] ELSE w.cur,
           IF w.curKey = "" THEN w.logical
           ELSE [w.logical EXCEPT ![w.curKey] = Append(@, t)],
           sections)

\* the content of a top-level Angular file arrives: the topic is added to
\* the logical section it is bucketed into, or dropped when processing throws
TopFileFetched(p, raw) ==
  /\ pc[p] = "fetchFile"
  /\ UNCHANGED <<call, ncalls, rootListings, servedFull, addressed, anaVars, regVars, toolVars>>
  /\ LET w    == walk[p]
         name == Head(w.files).name
     IN  AngularContinue(p, w.src, w.items,
           IF raw.isString
           THEN [w.logical EXCEPT ![AngularBucket(raw.text, name)] =
                   Append(@, NewTopic("", name, raw.text))]
           ELSE w.logical,
           sections)

\* getTopicById(sourceId, topicId), up to the await of fetchTopicContent or
\* to its return
CallTopic(p, sourceId, topicId) ==
  /\ CanStart(p)
  /\ ncalls' = ncalls + 1
  /\ UNCHANGED <<sections, walk, rootListings, returns, retFull, addressed, anaVars, regVars, toolVars>>
  /\ LET found == FindTopic(sourceId, topicId)
         c == [NoCall EXCEPT !.op = "topic", !.sourceId = sourceId,
                             !.topicId = topicId, !.found = found,
                             !.sawFull = (<<sourceId, topicId>> \in servedFull)]
     IN  /\ call' = [call EXCEPT ![p] = c]
         /\ IF found # NoTopic /\ found.content = ""
            THEN /\ pc' = [pc EXCEPT ![p] = "fetchTopic"]
                 /\ result' = [result EXCEPT ![p] = NoResult]
                 /\ UNCHANGED servedFull
            ELSE /\ pc' = [pc EXCEPT ![p] = "done"]
                 /\ result' = [result EXCEPT ![p] =
                      [kind |-> IF found = NoTopic THEN "null" ELSE "topic",
                       sources |-> <<>>, topic |-> found]]
                 /\ servedFull' = IF found # NoTopic
                                  THEN servedFull \cup {<<sourceId, topicId>>}
                                  ELSE servedFull

\* fetchTopicContent: a new topic value carrying the fetched content ('' when
\* the fetch failed); the topic as it was when processing the content throws
FetchedTopic(topic, raw) ==
  IF raw.isString THEN [topic EXCEPT !.content = raw.text] ELSE topic

\* the content getTopicById awaited arrives
TopicFetched(p, raw) ==
  /\ pc[p] = "fetchTopic"
  /\ UNCHANGED <<sections, call, walk, ncalls, rootListings, returns, retFull, addressed, anaVars, regVars, toolVars>>
  /\ LET t == FetchedTopic(call[p].found, raw)
     IN  /\ pc' = [pc EXCEPT ![p] = "done"]
         /\ result' = [result EXCEPT ![p] =
                         [kind |-> "topic", sources |-> <<>>, topic |-> t]]
         /\ servedFull' = IF t.content # ""
                          THEN servedFull \cup {<<call[p].sourceId, call[p].topicId>>}
                          ELSE servedFull

IdxNext ==
  \E p \in Procs :
    \/ \E fw \in FrameworkInputs(addressed) : CallSources(p, fw)
    \/ \E resp \in ListingResponses(NestRootListings \cup AngularRootListings) :
         RootListed(p, resp)
    \/ \E resp \in ListingResponses(DirListings) : DirListed(p, resp)
    \/ \E raw \in RawContents : DirFileFetched(p, raw)
    \/ \E raw \in RawContents : TopFileFetched(p, raw)
    \/ \E tid \in TopicIdInputs : CallTopic(p, FrameworkSources[addressed][1], tid)
    \/ \E raw \in RawContents : TopicFetched(p, raw)

(***************************************************************************)
(* Code Analyzer: the domain enums and the File Classifier                 *)
(***************************************************************************)

\* enum CodeLanguage: member name -> string value
CodeLanguage ==
  [TYPESCRIPT |-> "typescript", JAVASCRIPT |-> "javascript", HTML |-> "html",
   CSS |-> "css", SCSS |-> "scss", JSON |-> "json", YAML |-> "yaml",
   UNKNOWN |-> "unknown"]

\* enum CodeFileType: member name -> string value
CodeFileType ==
  [ANGULAR_COMPONENT  |-> "angular_component",
   ANGULAR_SERVICE    |-> "angular_service",
   ANGULAR_MODULE     |-> "angular_module",
   ANGULAR_DIRECTIVE  |-> "angular_directive",
   ANGULAR_PIPE       |-> "angular_pipe",
   NESTJS_CONTROLLER  |-> "nestjs_controller",
   NESTJS_SERVICE     |-> "nestjs_service",
   NESTJS_MODULE      |-> "nestjs_module",
   NESTJS_MIDDLEWARE  |-> "nestjs_middleware",
   NESTJS_PIPE        |-> "nestjs_pipe",
   NESTJS_GUARD       |-> "nestjs_guard",
   NESTJS_INTERCEPTOR |-> "nestjs_interceptor",
   CONFIGURATION      |-> "configuration",
   TEST               |-> "test",
   UNKNOWN            |-> "unknown"]

\* enum IssueSeverity
IssueSeverity == [ERROR |-> "error", WARNING |-> "warning", INFO |-> "info"]

\* new CodeFile(path, content, language, fileType)
CodeFile(path, content, language, fileType) ==
  [path |-> path, content |-> content, language |-> language, fileType |-> fileType]

\* detectFileType, language detection from the path's extension
DetectLanguage(path, language) ==
  IF language # CodeLanguage.UNKNOWN THEN language
  ELSE IF EndsWith(path, ".ts") THEN CodeLanguage.TYPESCRIPT
  ELSE IF EndsWith(path, ".js") THEN CodeLanguage.JAVASCRIPT
  ELSE IF EndsWith(path, ".html") THEN CodeLanguage.HTML
  ELSE IF EndsWith(path, ".css") THEN CodeLanguage.CSS
  ELSE IF EndsWith(path, ".scss") THEN CodeLanguage.SCSS
  ELSE IF EndsWith(path, ".json") THEN CodeLanguage.JSON
  ELSE IF EndsWith(path, ".yml") \/ EndsWith(path, ".yaml") THEN CodeLanguage.YAML
  ELSE language

\* detectFileType, the path rules in their order
PathFileType(path) ==
  IF Includes(path, ".controller.") THEN CodeFileType.NESTJS_CONTROLLER
  ELSE IF Includes(path, ".service.") \/ Includes(path, ".provider.")
  THEN CodeFileType.NESTJS_SERVICE
  ELSE IF Includes(path, ".module.") THEN CodeFileType.NESTJS_MODULE
  ELSE IF Includes(path, ".middleware.") THEN CodeFileType.NESTJS_MIDDLEWARE
  ELSE IF Includes(path, ".pipe.") THEN CodeFileType.NESTJS_PIPE
  ELSE IF Includes(path, ".guard.") THEN CodeFileType.NESTJS_GUARD
  ELSE IF Includes(path, ".interceptor.") \/ Includes(path, ".filter.")
  THEN CodeFileType.NESTJS_INTERCEPTOR
  ELSE IF Includes(path, ".component.") \/ EndsWith(path, ".component")
  THEN CodeFileType.ANGULAR_COMPONENT
  ELSE IF Includes(path, ".service.") \/ EndsWith(path, ".service")
  THEN CodeFileType.ANGULAR_SERVICE
  ELSE IF Includes(path, ".module.") \/ EndsWith(path, ".module")
  THEN CodeFileType.ANGULAR_MODULE
  ELSE IF Includes(path, ".directive.") \/ EndsWith(path, ".directive")
  THEN CodeFileType.ANGULAR_DIRECTIVE
  ELSE IF Includes(path, ".pipe.") \/ EndsWith(path, ".pipe")
  THEN CodeFileType.ANGULAR_PIPE
  ELSE IF Includes(path, ".spec.") \/ Includes(path, ".test.")
  THEN CodeFileType.TEST
  ELSE IF \/ Includes(path, "package.json") \/ Includes(path, "tsconfig.json")
          \/ Includes(path, "angular.json") \/ Includes(path, "nest-cli.json")
  THEN CodeFileType.CONFIGURATION
  ELSE CodeFileType.UNKNOWN

\* detectFileType, the content rules in their order
ContentFileType(content) ==
  IF Includes(content, "@Controller") \/ Includes(content, "Controller")
  THEN CodeFileType.NESTJS_CONTROLLER
  ELSE IF /\ Includes(content, "@Injectable")
          /\ \/ Includes(content, "Service") \/ Includes(content, "Provider")
             \/ Includes(content, "Repository")
  THEN CodeFileType.NESTJS_SERVICE
  ELSE IF Includes(content, "@Module") THEN CodeFileType.NESTJS_MODULE
  ELSE IF Includes(content, "@Injectable") /\ Includes(content, "Pipe")
  THEN CodeFileType.NESTJS_PIPE
  ELSE IF Includes(content, "@Injectable") /\ Includes(content, "Guard")
  THEN CodeFileType.NESTJS_GUARD
  ELSE IF /\ Includes(content, "@Injectable")
          /\ \/ Includes(content, "Interceptor") \/ Includes(content, "Filter")
             \/ Includes(content, "ExceptionFilter")
  THEN CodeFileType.NESTJS_INTERCEPTOR
  ELSE IF Includes(content, "@Component") THEN CodeFileType.ANGULAR_COMPONENT
  ELSE IF Includes(content, "@Injectable") /\ ~Includes(content, "@nestjs/")
  THEN CodeFileType.ANGULAR_SERVICE
  ELSE IF Includes(content, "@NgModule") THEN CodeFileType.ANGULAR_MODULE
  ELSE IF Includes(content, "@Directive") THEN CodeFileType.ANGULAR_DIRECTIVE
  ELSE IF Includes(content, "@Pipe") THEN CodeFileType.ANGULAR_PIPE
  ELSE CodeFileType.UNKNOWN

\* the classifier without its early return: every file is classified anew
HasDetectedType_Never(f) == FALSE

\* detectFileType, the early return: the file already has a detected type
HasDetectedType(f) == f.fileType # CodeFileType.UNKNOWN

\* language === TYPESCRIPT || language === JAVASCRIPT
IsScript(language) ==
  language = CodeLanguage.TYPESCRIPT \/ language = CodeLanguage.JAVASCRIPT

\* detectFileType(file)
detectFileType(f) ==
  IF HasDetectedType(f) THEN f
  ELSE LET language == DetectLanguage(f.path, f.language)
           byPath   == IF IsScript(language) THEN PathFileType(f.path)
                       ELSE CodeFileType.UNKNOWN
           fileType == IF byPath = CodeFileType.UNKNOWN /\ IsScript(language)
                       THEN ContentFileType(f.content)
                       ELSE byPath
       IN  CodeFile(f.path, f.content, language, fileType)

\* getFrameworkFromFileType(fileType), and the same test in the
\* detectFrameworkAndFileType tool: fileType.toString() is the enum's value
getFrameworkFromFileType(fileType) ==
  IF StartsWith(fileType, "ANGULAR_") THEN "angular"
  ELSE IF StartsWith(fileType, "NESTJS_") THEN "nestjs"
  ELSE ""

\* getComponentNameFromFileType(fileType)
getComponentNameFromFileType(fileType) ==
  CASE fileType = CodeFileType.NESTJS_CONTROLLER  -> "controller"
    [] fileType = CodeFileType.NESTJS_SERVICE     -> "service"
    [] fileType = CodeFileType.NESTJS_MODULE      -> "module"
    [] fileType = CodeFileType.NESTJS_MIDDLEWARE  -> "middleware"
    [] fileType = CodeFileType.NESTJS_PIPE        -> "pipe"
    [] fileType = CodeFileType.NESTJS_GUARD       -> "guard"
    [] fileType = CodeFileType.NESTJS_INTERCEPTOR -> "interceptor"
    [] fileType = CodeFileType.ANGULAR_COMPONENT  -> "component"
    [] fileType = CodeFileType.ANGULAR_SERVICE    -> "service"
    [] fileType = CodeFileType.ANGULAR_MODULE     -> "module"
    [] fileType = CodeFileType.ANGULAR_DIRECTIVE  -> "directive"
    [] fileType = CodeFileType.ANGULAR_PIPE       -> "pipe"
    [] OTHER -> ""

(***************************************************************************)
(* Code Analyzer: the syntax tree.  The tree is what the ts-morph project  *)
(* builds from a file's content; the analyzer reads from it the import     *)
(* declarations, the single-line comments and the classes with their       *)
(* decorators, implements clauses, methods and constructors.               *)
(***************************************************************************)

\* the concatenation of a sequence of sequences
RECURSIVE Concat(_)
Concat(seqs) == IF seqs = <<>> THEN <<>> ELSE Head(seqs) \o Concat(Tail(seqs))

\* a decorator: its name, the text of its first argument, its lines
Decorator(name, hasArgs, args, line) ==
  [name |-> name, hasArgs |-> hasArgs, args |-> args,
   startLine |-> line, endLine |-> line]

\* a method: name, decorator names, modifier keywords, lines, text
Method(name, decorators, modifiers, line, text) ==
  [name |-> name, decorators |-> decorators, modifiers |-> modifiers,
   startLine |-> line, endLine |-> line, text |-> text]

\* a constructor parameter
Parameter(name, modifiers, line, text) ==
  [name |-> name, modifiers |-> modifiers, startLine |-> line, endLine |-> line,
   text |-> text]

\* the sample sources
SrcPlainClass == "export class Cats {}"

SrcController ==
  "import { Get } from 'x';\n// old();\n@Controller()\nexport class CatsController {\n  find() {}\n  constructor(s: S) {}\n}"

SrcGuard ==
  "@Injectable()\nexport class AuthGuard implements CanActivate {\n  canActivate() { return true; }\n}"

SrcComponent == "@Component({})\nexport class Hero {\n  ngOnInit() {}\n}"

SrcInjectable == "@Injectable()\nexport class Data {}"

SrcTwoClasses == "export class A {}\nexport class B {}"

SrcUnusedImport == "import { x } from 'y';"

\* a guard that has a service injected
SrcGuardWithService ==
  "@Injectable()\nexport class AuthGuard {\n  constructor(private s: AuthService) {}\n}"

Contents ==
  {"", SrcPlainClass, SrcController, SrcGuard, SrcComponent, SrcInjectable,
   SrcGuardWithService}

EmptyTree == [imports |-> <<>>, comments |-> <<>>, classes |-> <<>>]

\* project.createSourceFile(path, content): the tree of each sample source
createSourceFile(content) ==
  CASE content = SrcPlainClass ->
         [EmptyTree EXCEPT !.classes =
           << [name |-> "Cats", text |-> SrcPlainClass, startLine |-> 1, endLine |-> 1,
               decorators |-> <<>>, implements |-> <<>>, methods |-> <<>>,
               constructors |-> <<>>] >>]
    [] content = SrcController ->
         [imports  |-> << [namedImports |-> << [name |-> "Get", references |-> 1] >>,
                           startLine |-> 1, endLine |-> 1] >>,
          comments |-> << [text |-> "// old();", startLine |-> 2, endLine |-> 2] >>,
          classes  |->
           << [name |-> "CatsController",
               text |-> SubSeq(SrcController, 36, Len(SrcController)),
               startLine |-> 3, endLine |-> 7,
               decorators |-> << Decorator("Controller", FALSE, "", 3) >>,
               implements |-> <<>>,
               methods |-> << Method("find", <<>>, {}, 5, "find() {}") >>,
               constructors |->
                 << [parameters |-> << Parameter("s", {}, 6, "s: S") >>] >>] >>]
    [] content = SrcGuard ->
         [EmptyTree EXCEPT !.classes =
           << [name |-> "AuthGuard", text |-> SrcGuard, startLine |-> 1, endLine |-> 4,
               decorators |-> << Decorator("Injectable", FALSE, "", 1) >>,
               implements |-> << "CanActivate" >>,
               methods |-> << Method("canActivate", <<>>, {}, 3,
                                     "canActivate() { return true; }") >>,
               constructors |-> <<>>] >>]
    [] content = SrcComponent ->
         [EmptyTree EXCEPT !.classes =
           << [name |-> "Hero", text |-> SrcComponent, startLine |-> 1, endLine |-> 4,
               decorators |-> << Decorator("Component", TRUE, "{}", 1) >>,
               implements |-> <<>>,
               methods |-> << Method("ngOnInit", <<>>, {}, 3, "ngOnInit() {}") >>,
               constructors |-> <<>>] >>]
    [] content = SrcInjectable ->
         [EmptyTree EXCEPT !.classes =
           << [name |-> "Data", text |-> SrcInjectable, startLine |-> 1, endLine |-> 2,
               decorators |-> << Decorator("Injectable", FALSE, "", 1) >>,
               implements |-> <<>>, methods |-> <<>>, constructors |-> <<>>] >>]
    [] content = SrcGuardWithService ->
         [EmptyTree EXCEPT !.classes =
           << [name |-> "AuthGuard", text |-> SrcGuardWithService,
               startLine |-> 1, endLine |-> 4,
               decorators |-> << Decorator("Injectable", FALSE, "", 1) >>,
               implements |-> <<>>, methods |-> <<>>,
               constructors |->
                 << [parameters |->
                       << Parameter("s", {"private"}, 3, "private s: AuthService") >>] >>] >>]
    [] content = SrcTwoClasses ->
         [EmptyTree EXCEPT !.classes =
           << [name |-> "A", text |-> "export class A {}", startLine |-> 1, endLine |-> 1,
               decorators |-> <<>>, implements |-> <<>>, methods |-> <<>>,
               constructors |-> <<>>],
              [name |-> "B", text |-> "export class B {}", startLine |-> 2, endLine |-> 2,
               decorators |-> <<>>, implements |-> <<>>, methods |-> <<>>,
               constructors |-> <<>>] >>]
    [] content = SrcUnusedImport ->
         [EmptyTree EXCEPT !.imports =
           << [namedImports |-> << [name |-> "x", references |-> 1] >>,
               startLine |-> 1, endLine |-> 1] >>]
    [] OTHER -> EmptyTree

\* new CodeIssue(...)
CodeIssue(id, description, severity, lineStart, lineEnd, suggestedFix, doc) ==
  [id |-> id, description |-> description, severity |-> severity,
   lineStart |-> lineStart, lineEnd |-> lineEnd, suggestedFix |-> suggestedFix,
   relatedDocumentation |-> doc]

\* classDeclaration.getName() || 'unknown'
NameOrUnknown(c) == IF c.name = "" THEN "unknown" ELSE c.name

\* a possibly undefined name interpolated into a template string
NameText(c) == IF c.name = "" THEN "undefined" ELSE c.name

\* classDeclaration.getName()?.toLowerCase() || 'example'
LowerNameOrExample(c) == IF c.name = "" THEN "example" ELSE ToLowerCase(c.name)

\* decorators.some(d => d.getName() === name)
HasDecorator(c, name) == \E i \in 1..Len(c.decorators) : c.decorators[i].name = name

\* getImplements().some(impl => impl.getText().includes(name))
Implements(c, name) == \E i \in 1..Len(c.implements) : Includes(c.implements[i], name)

\* getMethods().some(method => method.getName() === name)
HasMethod(c, name) == \E i \in 1..Len(c.methods) : c.methods[i].name = name

\* one issue when the condition holds, none otherwise
IssueIf(cond, issue) == IF cond THEN <<issue>> ELSE <<>>

\* d.getText().match(/^\s*\/\/.*[;{}]/) on a single-line comment
IsCommentedCode(text) ==
  LET t == TrimStart(text)
  IN  /\ StartsWith(t, "//")
      /\ \E i \in 3..Len(t) : CharAt(t, i) \in {";", "{", "}"}

\* the documentation link of the common pass
StyleGuideUrl(fw, angularUrl) ==
  IF fw = "angular" THEN angularUrl ELSE "https://docs.nestjs.com/styleguide"

\* a common pass that flags nothing
analyzeCommonTypeScriptPatterns_Silent(sourceFile, fw) == <<>>

\* analyzeCommonTypeScriptPatterns(sourceFile, issues, framework)
analyzeCommonTypeScriptPatterns(sourceFile, fw) ==
  LET ImportIssues(importDecl) ==
        LET NamedIssues(namedImport) ==
              IssueIf(namedImport.references <= 1,
                CodeIssue("unused-import-" \o namedImport.name,
                          "Unused import: " \o namedImport.name,
                          IssueSeverity.WARNING,
                          importDecl.startLine, importDecl.endLine,
                          "Remove the unused import: " \o namedImport.name,
                          StyleGuideUrl(fw, "https://angular.io/guide/styleguide#style-04-13")))
        IN  Concat([nth \in 1..Len(importDecl.namedImports) |-> NamedIssues(importDecl.namedImports[nth])])
      comments == SelectSeq(sourceFile.comments, LAMBDA d : IsCommentedCode(d.text))
      CommentIssues(comment) ==
        << CodeIssue("commented-code-" \o ToString(comment.startLine),
                     "Commented out code should be removed",
                     IssueSeverity.INFO,
                     comment.startLine, comment.endLine,
                     "Remove commented out code",
                     StyleGuideUrl(fw, "https://angular.io/guide/styleguide#style-02-03")) >>
  IN  Concat([nth \in 1..Len(sourceFile.imports) |-> ImportIssues(sourceFile.imports[nth])]) \o Concat([nth \in 1..Len(comments) |-> CommentIssues(comments[nth])])

(***************************************************************************)
(* Code Analyzer: the kind-specific passes.  Each gives the issues the     *)
(* pass pushes, in push order, when it runs to its end.                    *)
(***************************************************************************)

\* a missing decorator reported as a warning
MissingDecorator_Warning(c, idPrefix, description, fix, doc) ==
  CodeIssue(idPrefix \o NameOrUnknown(c), description, IssueSeverity.WARNING,
            c.startLine, c.endLine, fix, doc)

\* the error-severity issue of a class without its kind's decorator
MissingDecorator(c, idPrefix, description, fix, doc) ==
  CodeIssue(idPrefix \o NameOrUnknown(c), description, IssueSeverity.ERROR,
            c.startLine, c.endLine, fix, doc)

HttpMethodDecorators == {"Get", "Post", "Put", "Delete", "Patch", "Options", "Head"}

\* analyzeNestJSController(sourceFile, issues, bestPractices)
analyzeNestJSController(sourceFile) ==
  LET ClassIssues(c) ==
        LET MethodIssues(method) ==
              IssueIf(/\ ~\E i \in 1..Len(method.decorators) :
                            method.decorators[i] \in HttpMethodDecorators
                      /\ "private" \notin method.modifiers
                      /\ "protected" \notin method.modifiers,
                CodeIssue("missing-http-method-decorator-" \o method.name,
                          "Missing HTTP method decorator on controller method " \o method.name,
                          IssueSeverity.WARNING, method.startLine, method.endLine,
                          "Add an appropriate HTTP method decorator to the method:\n\n@Get()\n"
                            \o method.text,
                          "https://docs.nestjs.com/controllers#request-object"))
            ParamIssues(param) ==
              IssueIf(param.modifiers \cap {"private", "protected", "public"} = {},
                CodeIssue("missing-access-modifier-" \o param.name,
                          "Missing access modifier in constructor parameter for dependency injection: "
                            \o param.name,
                          IssueSeverity.WARNING, param.startLine, param.endLine,
                          "Add an access modifier (private, protected, or public) to the parameter:\n\nconstructor(private "
                            \o param.text \o ") {}",
                          "https://docs.nestjs.com/providers#dependency-injection"))
        IN  IssueIf(~HasDecorator(c, "Controller"),
              MissingDecorator(c, "missing-controller-decorator-",
                "Missing @Controller decorator on controller class",
                "Add @Controller() decorator to the class:\n\n@Controller()\n" \o c.text,
                "https://docs.nestjs.com/controllers"))
            \o Concat([nth \in 1..Len(c.methods) |-> MethodIssues(c.methods[nth])])
            \o (IF c.constructors # <<>>
                THEN Concat([nth \in 1..Len(c.constructors[1].parameters) |-> ParamIssues(c.constructors[1].parameters[nth])])
                ELSE <<>>)
  IN  Concat([nth \in 1..Len(sourceFile.classes) |-> ClassIssues(sourceFile.classes[nth])])

\* analyzeNestJSService(sourceFile, issues, bestPractices)
analyzeNestJSService(sourceFile) ==
  LET ClassIssues(c) ==
        IssueIf(~HasDecorator(c, "Injectable"),
          MissingDecorator(c, "missing-injectable-decorator-",
            "Missing @Injectable decorator on service class",
            "Add @Injectable() decorator to the class:\n\n@Injectable()\n" \o c.text,
            "https://docs.nestjs.com/providers"))
        \o IssueIf(/\ c.name # "" /\ ~EndsWith(c.name, "Service")
                   /\ ~EndsWith(c.name, "Provider") /\ ~EndsWith(c.name, "Repository"),
             CodeIssue("service-naming-convention-" \o c.name,
                       "Service class name should end with 'Service': " \o c.name,
                       IssueSeverity.INFO, c.startLine, c.endLine,
                       "Rename the class to follow the naming convention:\n\nexport class "
                         \o c.name \o "Service {...}",
                       "https://docs.nestjs.com/styleguide#naming"))
  IN  Concat([nth \in 1..Len(sourceFile.classes) |-> ClassIssues(sourceFile.classes[nth])])

\* analyzeNestJSModule(sourceFile, issues, bestPractices)
analyzeNestJSModule(sourceFile) ==
  LET ClassIssues(c) ==
        IF ~HasDecorator(c, "Module")
        THEN << MissingDecorator(c, "missing-module-decorator-",
                  "Missing @Module decorator on module class",
                  "Add @Module decorator with required metadata to the class:\n\n@Module({\n  imports: [],\n  controllers: [],\n  providers: [],\n  exports: []\n})\n"
                    \o c.text,
                  "https://docs.nestjs.com/modules") >>
        ELSE IssueIf(c.name # "" /\ ~EndsWith(c.name, "Module"),
               CodeIssue("module-naming-convention-" \o c.name,
                         "Module class name should end with 'Module': " \o c.name,
                         IssueSeverity.INFO, c.startLine, c.endLine,
                         "Rename the class to follow the naming convention:\n\nexport class "
                           \o c.name \o "Module {...}",
                         "https://docs.nestjs.com/styleguide#naming"))
  IN  Concat([nth \in 1..Len(sourceFile.classes) |-> ClassIssues(sourceFile.classes[nth])])

\* analyzeNestJSPipe(sourceFile, issues, bestPractices)
analyzeNestJSPipe(sourceFile) ==
  LET ClassIssues(c) ==
        IssueIf(~HasDecorator(c, "Injectable"),
          MissingDecorator(c, "missing-injectable-decorator-",
            "Missing @Injectable decorator on pipe class",
            "Add @Injectable() decorator to the class:\n\n@Injectable()\n" \o c.text,
            "https://docs.nestjs.com/pipes"))
        \o IssueIf(~Implements(c, "PipeTransform"),
             CodeIssue("missing-pipetransform-interface-" \o NameOrUnknown(c),
                       "Pipe class should implement PipeTransform interface",
                       IssueSeverity.ERROR, c.startLine, c.endLine,
                       "Update class to implement PipeTransform interface:\n\nexport class "
                         \o NameText(c) \o " implements PipeTransform {...}",
                       "https://docs.nestjs.com/pipes"))
        \o IssueIf(~HasMethod(c, "transform"),
             CodeIssue("missing-transform-method-" \o NameOrUnknown(c),
                       "Pipe class must implement a transform method",
                       IssueSeverity.ERROR, c.startLine, c.endLine,
                       "Add transform method to pipe class:\n\ntransform(value: any, metadata: ArgumentMetadata) {\n  // transformation logic\n  return value;\n}",
                       "https://docs.nestjs.com/pipes#building-a-simple-pipe"))
  IN  Concat([nth \in 1..Len(sourceFile.classes) |-> ClassIssues(sourceFile.classes[nth])])

\* analyzeNestJSGuard(sourceFile, issues, bestPractices)
analyzeNestJSGuard(sourceFile) ==
  LET ClassIssues(c) ==
        IssueIf(~HasDecorator(c, "Injectable"),
          MissingDecorator(c, "missing-injectable-decorator-",
            "Missing @Injectable decorator on guard class",
            "Add @Injectable() decorator to the class:\n\n@Injectable()\n" \o c.text,
            "https://docs.nestjs.com/guards"))
        \o IssueIf(~Implements(c, "CanActivate"),
             CodeIssue("missing-canactivate-interface-" \o NameOrUnknown(c),
                       "Guard class should implement CanActivate interface",
                       IssueSeverity.ERROR, c.startLine, c.endLine,
                       "Update class to implement CanActivate interface:\n\nexport class "
                         \o NameText(c) \o " implements CanActivate {...}",
                       "https://docs.nestjs.com/guards"))
        \o IssueIf(~HasMethod(c, "canActivate"),
             CodeIssue("missing-canactivate-method-" \o NameOrUnknown(c),
                       "Guard class must implement a canActivate method",
                       IssueSeverity.ERROR, c.startLine, c.endLine,
                       "Add canActivate method to guard class:\n\ncanActivate(context: ExecutionContext): boolean | Promise<boolean> | Observable<boolean> {\n  // guard logic\n  return true;\n}",
                       "https://docs.nestjs.com/guards#basic-guard"))
  IN  Concat([nth \in 1..Len(sourceFile.classes) |-> ClassIssues(sourceFile.classes[nth])])

\* analyzeNestJSInterceptor(sourceFile, issues, bestPractices)
analyzeNestJSInterceptor(sourceFile) ==
  LET ClassIssues(c) ==
        LET className == c.name
        IN  IssueIf(~HasDecorator(c, "Injectable"),
              MissingDecorator(c, "missing-injectable-decorator-",
                "Missing @Injectable decorator on interceptor class",
                "Add @Injectable() decorator to the class:\n\n@Injectable()\n" \o c.text,
                "https://docs.nestjs.com/interceptors"))
            \o (IF Includes(className, "Filter") \/ Includes(className, "Exception")
                THEN IssueIf(~Implements(c, "ExceptionFilter"),
                       CodeIssue("missing-exceptionfilter-interface-" \o className,
                                 "Exception filter class should implement ExceptionFilter interface",
                                 IssueSeverity.ERROR, c.startLine, c.endLine,
                                 "Update class to implement ExceptionFilter interface:\n\nexport class "
                                   \o className \o " implements ExceptionFilter {...}",
                                 "https://docs.nestjs.com/exception-filters"))
                     \o IssueIf(~HasMethod(c, "catch"),
                          CodeIssue("missing-catch-method-" \o className,
                                    "Exception filter class must implement a catch method",
                                    IssueSeverity.ERROR, c.startLine, c.endLine,
                                    "Add catch method to exception filter class:\n\ncatch(exception: Error, host: ArgumentsHost) {\n  // filter logic\n}",
                                    "https://docs.nestjs.com/exception-filters#binding-filters"))
                ELSE IssueIf(~Implements(c, "NestInterceptor"),
                       CodeIssue("missing-nestinterceptor-interface-" \o className,
                                 "Interceptor class should implement NestInterceptor interface",
                                 IssueSeverity.ERROR, c.startLine, c.endLine,
                                 "Update class to implement NestInterceptor interface:\n\nexport class "
                                   \o className \o " implements NestInterceptor {...}",
                                 "https://docs.nestjs.com/interceptors"))
                     \o IssueIf(~HasMethod(c, "intercept"),
                          CodeIssue("missing-intercept-method-" \o className,
                                    "Interceptor class must implement an intercept method",
                                    IssueSeverity.ERROR, c.startLine, c.endLine,
                                    "Add intercept method to interceptor class:\n\nintercept(context: ExecutionContext, next: CallHandler): Observable<any> {\n  // interceptor logic\n  return next.handle();\n}",
                                    "https://docs.nestjs.com/interceptors#basics")))
  IN  Concat([nth \in 1..Len(sourceFile.classes) |-> ClassIssues(sourceFile.classes[nth])])

\* analyzeAngularComponent(sourceFile, issues, bestPractices)
analyzeAngularComponent(sourceFile) ==
  LET ClassIssues(c) ==
        IF ~HasDecorator(c, "Component")
        THEN << MissingDecorator(c, "missing-component-decorator-",
                  "Missing @Component decorator on component class",
                  "Add @Component() decorator with required metadata to the class:\n\n@Component({\n  selector: 'app-"
                    \o LowerNameOrExample(c) \o "',\n  templateUrl: './"
                    \o LowerNameOrExample(c) \o ".component.html'\n})\n" \o c.text,
                  "https://angular.io/api/core/Component") >>
        ELSE IssueIf(HasMethod(c, "ngOnInit") /\ ~Implements(c, "OnInit"),
               CodeIssue("missing-oninit-interface-" \o NameOrUnknown(c),
                         "Component has ngOnInit method but does not implement OnInit interface",
                         IssueSeverity.WARNING, c.startLine, c.startLine + 1,
                         "Update class declaration to implement OnInit:\n\nexport class "
                           \o NameText(c)
                           \o " implements OnInit {\n\n  // Don't forget to add the import:\n  // import { OnInit } from '@angular/core';",
                         "https://angular.io/api/core/OnInit"))
  IN  Concat([nth \in 1..Len(sourceFile.classes) |-> ClassIssues(sourceFile.classes[nth])])

\* analyzeAngularService(sourceFile, issues, bestPractices)
analyzeAngularService(sourceFile) ==
  LET ClassIssues(c) ==
        IF ~HasDecorator(c, "Injectable")
        THEN << MissingDecorator(c, "missing-injectable-decorator-",
                  "Missing @Injectable decorator on service class",
                  "Add @Injectable() decorator to the class:\n\n@Injectable({ providedIn: 'root' })\n"
                    \o c.text
                    \o "\n\n// Don't forget to add the import:\n// import { Injectable } from '@angular/core';",
                  "https://angular.io/guide/dependency-injection") >>
        ELSE LET i == CHOOSE k \in 1..Len(c.decorators) :
                        /\ c.decorators[k].name = "Injectable"
                        /\ \A j \in 1..(k - 1) : c.decorators[j].name # "Injectable"
                 injectableDecorator == c.decorators[i]
             IN  IssueIf(\/ ~injectableDecorator.hasArgs
                         \/ ~Includes(injectableDecorator.args, "providedIn"),
                   CodeIssue("missing-providedin-" \o NameOrUnknown(c),
                             "Injectable decorator should use providedIn for tree-shakable services",
                             IssueSeverity.WARNING,
                             injectableDecorator.startLine, injectableDecorator.endLine,
                             "Update Injectable decorator to use providedIn:\n\n@Injectable({ providedIn: 'root' })",
                             "https://angular.io/guide/dependency-injection-providers#tree-shakable-providers"))
  IN  Concat([nth \in 1..Len(sourceFile.classes) |-> ClassIssues(sourceFile.classes[nth])])

\* analyzeAngularModule(sourceFile, issues, bestPractices)
analyzeAngularModule(sourceFile) ==
  LET ClassIssues(c) ==
        IssueIf(~HasDecorator(c, "NgModule"),
          MissingDecorator(c, "missing-ngmodule-decorator-",
            "Missing @NgModule decorator on module class",
            "Add @NgModule decorator with required metadata to the class:\n\n@NgModule({\n  declarations: [],\n  imports: [],\n  exports: [],\n  providers: []\n})\n"
              \o c.text
              \o "\n\n// Don't forget to add the import:\n// import { NgModule } from '@angular/core';",
            "https://angular.io/guide/ngmodules"))
  IN  Concat([nth \in 1..Len(sourceFile.classes) |-> ClassIssues(sourceFile.classes[nth])])

\* analyzeAngularDirective(sourceFile, issues, bestPractices)
analyzeAngularDirective(sourceFile) ==
  LET ClassIssues(c) ==
        IssueIf(~HasDecorator(c, "Directive"),
          MissingDecorator(c, "missing-directive-decorator-",
            "Missing @Directive decorator on directive class",
            "Add @Directive decorator with required metadata to the class:\n\n@Directive({\n  selector: '[app"
              \o (IF c.name = "" THEN "Example" ELSE c.name) \o "]'\n})\n" \o c.text
              \o "\n\n// Don't forget to add the import:\n// import { Directive } from '@angular/core';",
            "https://angular.io/guide/attribute-directives"))
  IN  Concat([nth \in 1..Len(sourceFile.classes) |-> ClassIssues(sourceFile.classes[nth])])

\* analyzeAngularPipe(sourceFile, issues, bestPractices)
analyzeAngularPipe(sourceFile) ==
  LET ClassIssues(c) ==
        IssueIf(~HasDecorator(c, "Pipe"),
          MissingDecorator(c, "missing-pipe-decorator-",
            "Missing @Pipe decorator on pipe class",
            "Add @Pipe decorator with required metadata to the class:\n\n@Pipe({\n  name: '"
              \o LowerNameOrExample(c) \o "'\n})\n" \o c.text
              \o "\n\n// Don't forget to add the import:\n// import { Pipe, PipeTransform } from '@angular/core';",
            "https://angular.io/guide/pipes"))
        \o IssueIf(~Implements(c, "PipeTransform"),
             CodeIssue("missing-pipetransform-interface-" \o NameOrUnknown(c),
                       "Pipe class should implement PipeTransform interface",
                       IssueSeverity.ERROR, c.startLine, c.endLine,
                       "Update class declaration to implement PipeTransform:\n\nexport class "
                         \o NameText(c)
                         \o " implements PipeTransform {...}\n\n// Don't forget to add the import:\n// import { Pipe, PipeTransform } from '@angular/core';",
                       "https://angular.io/guide/pipes#creating-pipes-for-custom-data-transformations"))
  IN  Concat([nth \in 1..Len(sourceFile.classes) |-> ClassIssues(sourceFile.classes[nth])])

\* findIssues, the try block run to its end: the common pass, then the
\* pass of the file's kind (none for middleware, test and configuration)
WalkIssues(f, fw) ==
  LET sourceFile == createSourceFile(f.content)
      fileType   == f.fileType
  IN  analyzeCommonTypeScriptPatterns(sourceFile, fw)
      \o (CASE fileType = CodeFileType.NESTJS_CONTROLLER  -> analyzeNestJSController(sourceFile)
            [] fileType = CodeFileType.NESTJS_SERVICE     -> analyzeNestJSService(sourceFile)
            [] fileType = CodeFileType.NESTJS_MODULE      -> analyzeNestJSModule(sourceFile)
            [] fileType = CodeFileType.NESTJS_PIPE        -> analyzeNestJSPipe(sourceFile)
            [] fileType = CodeFileType.NESTJS_GUARD       -> analyzeNestJSGuard(sourceFile)
            [] fileType = CodeFileType.NESTJS_INTERCEPTOR -> analyzeNestJSInterceptor(sourceFile)
            [] fileType = CodeFileType.ANGULAR_COMPONENT  -> analyzeAngularComponent(sourceFile)
            [] fileType = CodeFileType.ANGULAR_SERVICE    -> analyzeAngularService(sourceFile)
            [] fileType = CodeFileType.ANGULAR_MODULE     -> analyzeAngularModule(sourceFile)
            [] fileType = CodeFileType.ANGULAR_DIRECTIVE  -> analyzeAngularDirective(sourceFile)
            [] fileType = CodeFileType.ANGULAR_PIPE       -> analyzeAngularPipe(sourceFile)
            [] OTHER -> <<>>)

\* a findIssues that builds the tree of every file
SkipsAnalysis_Never(f) == FALSE

\* findIssues, the early return: no tree is built for these files
SkipsAnalysis(f) == ~IsScript(f.language) \/ f.fileType = CodeFileType.UNKNOWN

\* how the try block of findIssues can end: it runs to its end, or a call
\* into the syntax-tree library raises after `at' issues were pushed
WalkOutcomes(all) ==
  {[raised |-> FALSE, at |-> Len(all)]} \cup {[raised |-> TRUE, at |-> k] : k \in 0..Len(all)}

\* findIssues, the issues returned: the catch block logs the error and the
\* issues pushed so far are returned
CaughtIssues(all, outcome) == SubSeq(all, 1, outcome.at)

\* a findIssues that walks only the files whose kind belongs to the
\* framework the caller named
findIssues_ByFramework(f, fw, outcome) ==
  IF SkipsAnalysis(f) \/ ~StartsWith(f.fileType, fw) THEN <<>>
  ELSE CaughtIssues(WalkIssues(f, fw), outcome)

\* findIssues(file, bestPractices, framework)
findIssues(f, fw, outcome) ==
  IF SkipsAnalysis(f) THEN <<>> ELSE CaughtIssues(WalkIssues(f, fw), outcome)

(***************************************************************************)
(* Code Analyzer: suggestions                                              *)
(***************************************************************************)

\* the passages the Documentation Index may extract for a query
PassageHeading == "# Controllers\nUse one controller per resource."

PassageCode == "Prefer constructor injection:\n~~~typescript\nconstructor(private s: S) {}\n~~~\nas shown."

PassagePlain == "Keep providers small."

PracticeLists == {<<>>, <<PassageHeading, PassageCode, PassagePlain>>}

\* the code fence of a markdown passage (three backquotes in the documents)
CodeFence == "~~~"

\* documentationRepository.getBestPractices(framework, component) as its
\* caller sees it: an identifier for which the index holds no Source gives
\* no passage, a known one gives what the index extracts (found)
getBestPractices(fw, component, found) ==
  IF ToLowerCase(fw) \in DOMAIN FrameworkSources THEN found ELSE <<>>

\* fetchRelevantBestPractices(file, framework)
fetchRelevantBestPractices(f, fw, byComponent, byTerms) ==
  LET component   == getComponentNameFromFileType(f.fileType)
      commonTerms == <<"best practices", "style guide", "conventions">>
      first       == getBestPractices(fw, component, byComponent)
      later       == [i \in 1..Len(commonTerms) |->
                        getBestPractices(fw, commonTerms[i], byTerms[i])]
      hits        == { i \in 1..Len(commonTerms) : Len(later[i]) > 0 }
  IN  IF component = "" THEN <<>>
      ELSE IF Len(first) # 0 THEN first
      ELSE IF hits = {} THEN <<>>
      ELSE later[CHOOSE i \in hits : \A j \in hits : i <= j]

\* analyzeFile, the BestPractice objects (identifier and description)
BestPractices(practices) ==
  [i \in 1..Len(practices) |->
     [id |-> "bp-" \o ToString(i), description |-> practices[i]]]

\* practice.replace(/^#+\s+.+\n/, ''): a leading heading line is removed
RemoveHeading(s) ==
  LET h    == RunLength(s, {"#"}, TRUE)
      rest == SubSeq(s, h + 1, Len(s))
      w    == RunLength(rest, WhiteSpace, TRUE)
      \* the text matched by .+ when \s+ takes j characters, and what follows
      Line(j)  == RunLength(SubSeq(rest, j + 1, Len(rest)), LineTerminators, FALSE)
      Ends(j)  == Line(j) >= 1 /\ j + Line(j) < Len(rest)
                  /\ CharAt(rest, j + Line(j) + 1) = "\n"
      matches  == { j \in 1..w : Ends(j) }
  IN  IF h = 0 \/ matches = {} THEN s
      ELSE LET j == CHOOSE k \in matches : \A m \in matches : m <= k
           IN  SubSeq(rest, j + Line(j) + 2, Len(rest))

\* the first position at or after `from' where one of the opening fences
\* of a code block starts, and 0 when there is none
FenceOpen(s, from) ==
  LET opens == { i \in from..Len(s) :
                   \E lang \in {"typescript", "javascript", "html"} :
                     StartsWith(SubSeq(s, i, Len(s)), CodeFence \o lang) }
  IN  IF opens = {} THEN 0 ELSE CHOOSE i \in opens : \A j \in opens : i <= j

\* practice.replace(/[fence](?:typescript|javascript|html)[\s\S]*?[fence]/g,
\* '[Code example]')
RECURSIVE ReplaceCodeBlocks(_)
ReplaceCodeBlocks(s) ==
  LET i      == FenceOpen(s, 1)
      lang   == CHOOSE l \in {"typescript", "javascript", "html"} :
                  StartsWith(SubSeq(s, i, Len(s)), CodeFence \o l)
      body   == SubSeq(s, i + Len(CodeFence) + Len(lang), Len(s))
      close  == IndexOf(body, CodeFence)
  IN  IF i = 0 THEN s
      ELSE IF close = 0 THEN s
      ELSE SubSeq(s, 1, i - 1) \o "[Code example]"
           \o ReplaceCodeBlocks(SubSeq(body, close + Len(CodeFence), Len(body)))

\* the passages appended to one suggestion
MaxPractices == 2

\* the characters kept of each passage
MaxPracticeChars == 200

\* s.substring(0, n)
Substring0(s, n) == SubSeq(s, 1, IF Len(s) < n THEN Len(s) ELSE n)

\* bestPractices.slice(0, 2), each passage cleaned and cut
CleanPractices(bestPractices) ==
  [i \in 1..(IF Len(bestPractices) < MaxPractices THEN Len(bestPractices) ELSE MaxPractices) |->
     Substring0(ReplaceCodeBlocks(RemoveHeading(bestPractices[i])), MaxPracticeChars)]

\* the concatenation of a sequence of strings
RECURSIVE Join(_)
Join(strs) == IF strs = <<>> THEN "" ELSE Head(strs) \o Join(Tail(strs))

\* a suggestion that leaves out what its issue says
Suggestion_Anonymous(issue, bestPractices) ==
  "Suggested Fix:\n" \o issue.suggestedFix

\* generateFixSuggestions, the suggestion of one issue
Suggestion(issue, bestPractices) ==
  "Issue: " \o issue.description \o "\n"
  \o "Severity: " \o issue.severity \o "\n"
  \o "Location: Lines " \o ToString(issue.lineStart) \o "-" \o ToString(issue.lineEnd) \o "\n\n"
  \o "Suggested Fix:\n" \o issue.suggestedFix \o "\n\n"
  \o (IF Len(bestPractices) > 0
      THEN "Related Best Practices:\n"
           \o Join([i \in DOMAIN CleanPractices(bestPractices) |->
                      "- " \o CleanPractices(bestPractices)[i] \o "...\n"])
      ELSE "")
  \o (IF issue.relatedDocumentation # ""
      THEN "\nReference: " \o issue.relatedDocumentation
      ELSE "")

(***************************************************************************)
(* Code Analyzer: operations                                               *)
(***************************************************************************)

\* detectFileType is applied to a file, then to its own result
MaxClassify == 2

Paths ==
  {"a.controller.ts", "a.service.ts", "a.module.ts", "a.middleware.ts", "a.pipe.ts",
   "a.guard.js", "a.filter.ts", "a.component.ts", "a.directive.ts", "a.spec.ts",
   "tsconfig.json", "a.ts", "a.html", "a.component"}

\* the language and the kind a caller may have set on the file beforehand
Presets ==
  {<<CodeLanguage.UNKNOWN, CodeFileType.UNKNOWN>>,
   <<CodeLanguage.TYPESCRIPT, CodeFileType.UNKNOWN>>,
   <<CodeLanguage.UNKNOWN, CodeFileType.TEST>>,
   <<CodeLanguage.TYPESCRIPT, CodeFileType.ANGULAR_PIPE>>}

NoReport == [path |-> "", language |-> "", fileType |-> "", framework |-> ""]

NoAnalysis ==
  [done |-> FALSE, file |-> CodeFile("", "", "", ""), issues |-> <<>>,
   bestPractices |-> <<>>, raised |-> FALSE, pushed |-> 0, built |-> FALSE]

NoSuggested == [done |-> FALSE, suggestions |-> <<>>, queries |-> <<>>, related |-> <<>>]

AnaParked ==
  /\ file = CodeFile("", "", "", "")
  /\ framework = ""
  /\ outs = <<>>
  /\ reported = NoReport
  /\ analysis = NoAnalysis
  /\ suggested = NoSuggested

AnaInit ==
  /\ file \in { CodeFile(p, c, preset[1], preset[2]) :
                  p \in Paths, c \in Contents, preset \in Presets }
  /\ framework \in {"angular", "nestjs"}
  /\ outs = <<>>
  /\ reported = NoReport
  /\ analysis = NoAnalysis
  /\ suggested = NoSuggested

\* a detectFileType call, on the file and then on the file it returned
DetectFileType ==
  /\ Len(outs) < MaxClassify
  /\ outs' = Append(outs, detectFileType(IF outs = <<>> THEN file ELSE outs[Len(outs)]))
  /\ UNCHANGED <<file, framework, reported, analysis, suggested, idxVars, regVars, toolVars>>

\* the detectFrameworkAndFileType tool
DetectFrameworkAndFileType ==
  /\ reported = NoReport
  /\ LET codeFile     == CodeFile(file.path, file.content,
                                  CodeLanguage.UNKNOWN, CodeFileType.UNKNOWN)
         detectedFile == detectFileType(codeFile)
         fileType     == detectedFile.fileType
     IN  reported' = [path |-> detectedFile.path, language |-> detectedFile.language,
                      fileType |-> fileType,
                      framework |-> getFrameworkFromFileType(fileType)]
  /\ UNCHANGED <<file, framework, outs, analysis, suggested, idxVars, regVars, toolVars>>

\* analyzeFile(file, framework)
AnalyzeFile(byComponent, byTerms) ==
  /\ ~analysis.done
  /\ LET detectedFile == detectFileType(file)
         practices    == fetchRelevantBestPractices(detectedFile, framework,
                                                    byComponent, byTerms)
         all          == WalkIssues(detectedFile, framework)
     IN  \E outcome \in (IF SkipsAnalysis(detectedFile)
                         THEN {[raised |-> FALSE, at |-> 0]}
                         ELSE WalkOutcomes(all)) :
           analysis' = [done |-> TRUE, file |-> detectedFile,
                        issues |-> findIssues(detectedFile, framework, outcome),
                        bestPractices |-> BestPractices(practices),
                        raised |-> outcome.raised, pushed |-> outcome.at,
                        built |-> ~SkipsAnalysis(detectedFile)]
  /\ UNCHANGED <<file, framework, outs, reported, suggested, idxVars, regVars, toolVars>>

\* generateFixSuggestions(analysisResult): one index lookup per issue
GenerateFixSuggestions(found) ==
  /\ analysis.done
  /\ ~suggested.done
  /\ LET issues  == analysis.issues
         fw      == getFrameworkFromFileType(analysis.file.fileType)
         answers == [i \in 1..Len(issues) |->
                       getBestPractices(fw, issues[i].description, found[i])]
     IN  suggested' =
           [done        |-> TRUE,
            suggestions |-> [i \in 1..Len(issues) |-> Suggestion(issues[i], answers[i])],
            queries     |-> [i \in 1..Len(issues) |->
                               [framework |-> fw, component |-> issues[i].description]],
            related     |-> [i \in 1..Len(issues) |-> CleanPractices(answers[i])]]
  /\ UNCHANGED <<file, framework, outs, reported, analysis, idxVars, regVars, toolVars>>

AnaNext ==
  \/ DetectFileType
  \/ DetectFrameworkAndFileType
  \/ \E byComponent \in PracticeLists : \E byTerms \in [1..3 -> PracticeLists] :
       AnalyzeFile(byComponent, byTerms)
  \/ \E found \in [1..Len(analysis.issues) -> PracticeLists] : GenerateFixSuggestions(found)


(***************************************************************************)
(* The analyzeProject tool: every file is analyzed in turn, then the       *)
(* per-file reports and the project summary are built.                     *)
(***************************************************************************)

\* the files of one analyzeProject call
MaxFiles == 3

\* the files a caller may hand in (path and content)
ProjectFiles ==
  { [path |-> "a.controller.ts", content |-> SrcTwoClasses],
    [path |-> "a.ts", content |-> SrcPlainClass],
    [path |-> "a.spec.ts", content |-> SrcUnusedImport],
    [path |-> "a.controller.ts", content |-> SrcController] }

\* the lists of at most n files
RECURSIVE FileLists(_)
FileLists(n) ==
  IF n = 0 THEN {<<>>}
  ELSE FileLists(n - 1)
       \cup { Append(l, f) : l \in { x \in FileLists(n - 1) : Len(x) = n - 1 },
                             f \in ProjectFiles }

\* array.reduce((sum, x) => sum + x, 0)
RECURSIVE Sum(_)
Sum(numbers) == IF numbers = <<>> THEN 0 ELSE Head(numbers) + Sum(Tail(numbers))

\* the issues of a severity counted file by file, not issue by issue
SeverityCount_Files(results, severity) ==
  Len(SelectSeq(results, LAMBDA r :
        \E i \in 1..Len(r.issues) : r.issues[i].severity = severity))

\* results.reduce((sum, r) => sum + r.issues.filter(i => i.severity === s).length, 0)
SeverityCount(results, severity) ==
  Sum([k \in 1..Len(results) |->
         Len(SelectSeq(results[k].issues, LAMBDA i : i.severity = severity))])

\* the report of one file: fileInfo, the issues without fix and reference,
\* and the fix suggestions when the result has issues
FileReport(analysisResult) ==
  [fileInfo |-> [path |-> analysisResult.file.path, language |-> analysisResult.file.language,
                 fileType |-> analysisResult.file.fileType],
   issues |-> [i \in 1..Len(analysisResult.issues) |->
                 [id |-> analysisResult.issues[i].id,
                  description |-> analysisResult.issues[i].description,
                  severity |-> analysisResult.issues[i].severity,
                  lineStart |-> analysisResult.issues[i].lineStart,
                  lineEnd |-> analysisResult.issues[i].lineEnd]],
   fixSuggestions |->
     [i \in 1..Len(analysisResult.issues) |->
        Suggestion(analysisResult.issues[i],
          getBestPractices(getFrameworkFromFileType(analysisResult.file.fileType),
                           analysisResult.issues[i].description,
                           <<PassageHeading, PassageCode, PassagePlain>>))]]

\* the project-level statistics
ProjectSummary(results) ==
  [totalFiles      |-> Len(results),
   filesWithIssues |-> Len(SelectSeq(results, LAMBDA r : Len(r.issues) > 0)),
   totalIssues     |-> Sum([k \in 1..Len(results) |-> Len(results[k].issues)]),
   issuesBySeverity |->
     [error   |-> SeverityCount(results, IssueSeverity.ERROR),
      warning |-> SeverityCount(results, IssueSeverity.WARNING),
      info    |-> SeverityCount(results, IssueSeverity.INFO)]]

NoSummary ==
  [totalFiles |-> 0, filesWithIssues |-> 0, totalIssues |-> 0,
   issuesBySeverity |-> [error |-> 0, warning |-> 0, info |-> 0]]

NoReply == [status |-> "", projectSummary |-> NoSummary, results |-> <<>>]

PrjInit ==
  /\ prjPc = "idle"
  /\ prjFiles = <<>>
  /\ prjFramework = ""
  /\ prjResults = <<>>
  /\ prjReply = NoReply

\* the tool is called: the Code Files are built with unknown language and
\* kind, and analyzeProject starts
AnalyzeProjectCall(files, fw) ==
  /\ prjPc = "idle"
  /\ prjPc' = "analyzing"
  /\ prjFiles' = [i \in 1..Len(files) |->
                    CodeFile(files[i].path, files[i].content,
                             CodeLanguage.UNKNOWN, CodeFileType.UNKNOWN)]
  /\ prjFramework' = fw
  /\ UNCHANGED <<prjResults, prjReply, idxVars, anaVars, regVars, qryVars, extVars, batVars>>

\* analyzeProject, one turn of its loop: await this.analyzeFile(file, framework)
AnalyzeProjectFile ==
  /\ prjPc = "analyzing"
  /\ Len(prjResults) < Len(prjFiles)
  /\ LET detectedFile == detectFileType(prjFiles[Len(prjResults) + 1])
         all          == WalkIssues(detectedFile, prjFramework)
     IN  \E outcome \in (IF SkipsAnalysis(detectedFile)
                         THEN {[raised |-> FALSE, at |-> 0]}
                         ELSE WalkOutcomes(all)) :
           prjResults' = Append(prjResults,
             [file |-> detectedFile,
              issues |-> findIssues(detectedFile, prjFramework, outcome)])
  /\ UNCHANGED <<prjPc, prjFiles, prjFramework, prjReply, idxVars, anaVars, regVars, qryVars, extVars, batVars>>

\* analyzeProject has returned: the reports and the summary are built
AnalyzeProjectReply ==
  /\ prjPc = "analyzing"
  /\ Len(prjResults) = Len(prjFiles)
  /\ prjPc' = "done"
  /\ LET results == [k \in 1..Len(prjResults) |-> FileReport(prjResults[k])]
     IN  prjReply' = [status |-> "success",
                      projectSummary |-> ProjectSummary(results),
                      results |-> results]
  /\ UNCHANGED <<prjFiles, prjFramework, prjResults, idxVars, anaVars, regVars, qryVars, extVars, batVars>>

PrjNext ==
  \/ \E files \in FileLists(MaxFiles) : \E fw \in {"angular", "nestjs"} :
       AnalyzeProjectCall(files, fw)
  \/ AnalyzeProjectFile
  \/ AnalyzeProjectReply
(***************************************************************************)
(* Markdown Heuristics: best-practice passages (extractBestPractices)      *)
(***************************************************************************)

\* the words of the five trigger headings, in the order they are tried
bestPracticeHeadings ==
  << <<"best", "practices">>, <<"recommended", "practices">>,
     <<"style", "guide">>, <<"guidelines">>, <<"conventions">> >>

\* the trigger words of a list block
ListTriggers == {"best practice", "recommend", "should", "always", "never"}

\* the trigger phrases of the text before a code block
CodeTriggers == {"best practice", "recommend", "preferred way", "correct", "example"}

\* (?:typescript|javascript|html), in the order of the alternation
PracticeLanguages == <<"typescript", "javascript", "html">>

\* the text before a code block that is looked at
PrecedingChars == 200

\* #{1,3}\s+ at position i: one to three hashes, then white space; the
\* position after the hashes, or 0
HeadingMarkAt(s, i) ==
  LET r == RunLength(SubSeq(s, i, Len(s)), {"#"}, TRUE)
  IN  IF r \in 1..3 /\ i + r <= Len(s) /\ IsSpace(CharAt(s, i + r))
      THEN i + r ELSE 0

\* \s+word\s+word... at position j of the lower-cased text: the position
\* after the last word, or 0
RECURSIVE WordsEnd(_, _, _)
WordsEnd(low, j, words) ==
  IF words = <<>> THEN j
  ELSE LET n == RunLength(SubSeq(low, j, Len(low)), WhiteSpace, TRUE)
       IN  IF n >= 1 /\ StartsWith(SubSeq(low, j + n, Len(low)), Head(words))
           THEN WordsEnd(low, j + n + Len(Head(words)), Tail(words))
           ELSE 0

\* the trigger heading at position i (flag i: letter case is ignored): the
\* position after it, or 0
TriggerHeadingEnd(s, i, words) ==
  IF HeadingMarkAt(s, i) = 0 THEN 0
  ELSE WordsEnd(ToLowerCase(s), HeadingMarkAt(s, i), words)

\* [\s\S]*?(?=#{1,3}\s+|$) from position e: the position after the passage
PassageEnd(s, e) ==
  Least({ j \in e..(Len(s) + 1) : j = Len(s) + 1 \/ HeadingMarkAt(s, j) # 0 })

\* 1. the passage of one trigger heading: content.match of the heading
\* expression, its first match trimmed, or nothing
HeadingPassage(s, words) ==
  LET starts == { i \in 1..Len(s) : TriggerHeadingEnd(s, i, words) # 0 }
  IN  IF starts = {} THEN <<>>
      ELSE << Trim(SubSeq(s, Least(starts),
                          PassageEnd(s, TriggerHeadingEnd(s, Least(starts), words)) - 1)) >>

\* (?:\r?\n|\r) at position i: its length, or 0
LineBreakAt(s, i) ==
  IF StartsWith(SubSeq(s, i, Len(s)), "\r\n") THEN 2
  ELSE IF i <= Len(s) /\ CharAt(s, i) \in LineTerminators THEN 1
  ELSE 0

Digits == {"0", "1", "2", "3", "4", "5", "6", "7", "8", "9"}

\* (?:\*|\-|\d+\.) at position i: its length, or 0
BulletAt(s, i) ==
  LET d == RunLength(SubSeq(s, i, Len(s)), Digits, TRUE)
  IN  IF i <= Len(s) /\ CharAt(s, i) \in {"*", "-"} THEN 1
      ELSE IF d >= 1 /\ i + d <= Len(s) /\ CharAt(s, i + d) = "." THEN d + 1
      ELSE 0

\* one list item (?:\r?\n|\r)(?:\*|\-|\d+\.)\s+.+ at position i: the position
\* after it, or 0
ItemEnd(s, i) ==
  IF LineBreakAt(s, i) = 0 \/ BulletAt(s, i + LineBreakAt(s, i)) = 0 THEN 0
  ELSE LET j == i + LineBreakAt(s, i) + BulletAt(s, i + LineBreakAt(s, i))
           c == HeadingCapture(s, j)
       IN  IF c = 0 THEN 0 ELSE c + Len(RestOfLine(s, c))

\* (?:item)+ at position i, where an item matches: the position after the
\* last of the consecutive items
RECURSIVE ListEnd(_, _)
ListEnd(s, i) ==
  IF ItemEnd(s, ItemEnd(s, i)) = 0 THEN ItemEnd(s, i)
  ELSE ListEnd(s, ItemEnd(s, i))

\* content.match(/(?:item)+/g) from position i on: the list blocks
RECURSIVE BulletLists(_, _)
BulletLists(s, i) ==
  IF i > Len(s) THEN <<>>
  ELSE IF ItemEnd(s, i) = 0 THEN BulletLists(s, i + 1)
  ELSE <<SubSeq(s, i, ListEnd(s, i) - 1)>> \o BulletLists(s, ListEnd(s, i))

HasTrigger(text, triggers) ==
  \E w \in triggers : Includes(ToLowerCase(text), w)

HasListTrigger(section) == HasTrigger(section, ListTriggers)

\* 2. the list blocks that hold a trigger word, trimmed
ListPassages(s) ==
  LET blocks == SelectSeq(BulletLists(s, 1), HasListTrigger)
  IN  [n \in 1..Len(blocks) |-> Trim(blocks[n])]

\* the opening of a code block in one of the languages at position i: the
\* position after the language, or 0
CodeOpenAt(s, i, langs) ==
  IF \E n \in 1..Len(langs) : StartsWith(SubSeq(s, i, Len(s)), CodeFence \o langs[n])
  THEN i + Len(CodeFence)
         + Len(langs[Least({ n \in 1..Len(langs) :
                 StartsWith(SubSeq(s, i, Len(s)), CodeFence \o langs[n]) })])
  ELSE 0

\* a code block at position i: the position after its closing fence, or 0
CodeBlockEnd(s, i, langs) ==
  IF CodeOpenAt(s, i, langs) = 0
       \/ IndexOf(SubSeq(s, CodeOpenAt(s, i, langs), Len(s)), CodeFence) = 0
  THEN 0
  ELSE CodeOpenAt(s, i, langs)
         + IndexOf(SubSeq(s, CodeOpenAt(s, i, langs), Len(s)), CodeFence)
         - 1 + Len(CodeFence)

\* content.match(/<fence>(?:languages)[\s\S]*?<fence>/g) from position i on:
\* the code blocks
RECURSIVE CodeBlocks(_, _, _)
CodeBlocks(s, i, langs) ==
  IF i > Len(s) THEN <<>>
  ELSE IF CodeBlockEnd(s, i, langs) = 0 THEN CodeBlocks(s, i + 1, langs)
  ELSE <<SubSeq(s, i, CodeBlockEnd(s, i, langs) - 1)>>
         \o CodeBlocks(s, CodeBlockEnd(s, i, langs), langs)

\* content.substring(Math.max(0, content.indexOf(block) - 200),
\*                   content.indexOf(block))
PrecedingText(s, block) ==
  LET at == IndexOf(s, block)
  IN  SubSeq(s, IF at - PrecedingChars > 1 THEN at - PrecedingChars ELSE 1, at - 1)

\* 3. the code blocks whose preceding text holds a trigger phrase, each after
\* that text
CodePassages(s) ==
  LET blocks == CodeBlocks(s, 1, PracticeLanguages)
      shown  == { n \in 1..Len(blocks) : HasTrigger(PrecedingText(s, blocks[n]), CodeTriggers) }
      Pick[n \in 0..Len(blocks)] ==
        IF n = 0 THEN <<>>
        ELSE IF n \in shown
             THEN Append(Pick[n - 1], Trim(PrecedingText(s, blocks[n])) \o "\n\n" \o blocks[n])
             ELSE Pick[n - 1]
  IN  Pick[Len(blocks)]

\* #{1,3}\s+Do['']s and Don['']ts at position i: the position after it, or 0
DosAndDontsEnd(s, i) ==
  LET j == HeadingMarkAt(s, i)
      n == RunLength(SubSeq(s, j, Len(s)), WhiteSpace, TRUE)
  IN  IF j # 0 /\ StartsWith(SubSeq(ToLowerCase(s), j + n, Len(s)), "do's and don'ts")
      THEN j + n + Len("do's and don'ts") ELSE 0

\* 4. the Do's and Don'ts section, trimmed
DosAndDonts(s) ==
  LET starts == { i \in 1..Len(s) : DosAndDontsEnd(s, i) # 0 }
  IN  IF starts = {} THEN <<>>
      ELSE << Trim(SubSeq(s, Least(starts),
                          PassageEnd(s, DosAndDontsEnd(s, Least(starts))) - 1)) >>

\* extractBestPractices, on the content of the topic: the passages of the four
\* heuristics, in the order they are run
extractBestPractices(content) ==
  Concat([n \in 1..Len(bestPracticeHeadings) |->
            HeadingPassage(content, bestPracticeHeadings[n])])
    \o ListPassages(content) \o CodePassages(content) \o DosAndDonts(content)

(***************************************************************************)
(* Markdown Heuristics: code examples (extractCodeExamples)                *)
(***************************************************************************)

\* (?:typescript|javascript|html|css), in the order of the alternation
ExampleLanguages == <<"typescript", "javascript", "html", "css">>

Quotes == {"'", "\""}

\* block.replace(/^<fence>(?:languages)\r?\n/g, '').replace(/<fence>$/g, '')
\*      .trim()
CleanCode(block) ==
  LET o == CodeOpenAt(block, 1, ExampleLanguages)
      b == IF StartsWith(SubSeq(block, o, Len(block)), "\r\n") THEN o + 2
           ELSE IF StartsWith(SubSeq(block, o, Len(block)), "\n") THEN o + 1
           ELSE 1
      opened == SubSeq(block, b, Len(block))
  IN  Trim(IF EndsWith(opened, CodeFence)
           THEN SubSeq(opened, 1, Len(opened) - Len(CodeFence)) ELSE opened)

NonEmpty(s) == s # ""

\* the fenced code blocks, cleaned, the empty ones dropped
FencedExamples(content) ==
  LET blocks == CodeBlocks(content, 1, ExampleLanguages)
  IN  SelectSeq([n \in 1..Len(blocks) |-> CleanCode(blocks[n])], NonEmpty)

DocsCodeOpen == "<docs-code"

DocsCodeClose == "</docs-code>"

\* /<docs-code[^>]*>([\s\S]*?)<\/docs-code>/ at position i: the position of
\* the capture, or 0
DocsCodeBody(s, i) ==
  LET j == i + Len(DocsCodeOpen)
      g == j + RunLength(SubSeq(s, j, Len(s)), {">"}, FALSE)
  IN  IF /\ StartsWith(SubSeq(s, i, Len(s)), DocsCodeOpen)
         /\ g <= Len(s)
         /\ Includes(SubSeq(s, g + 1, Len(s)), DocsCodeClose)
      THEN g + 1 ELSE 0

\* the position after the element matched at position i
DocsCodeEnd(s, i) ==
  DocsCodeBody(s, i) + IndexOf(SubSeq(s, DocsCodeBody(s, i), Len(s)), DocsCodeClose)
    - 1 + Len(DocsCodeClose)

\* content.matchAll of the element expression from position i on: the
\* captures, trimmed, the empty ones dropped
RECURSIVE DocsCodeExamples(_, _)
DocsCodeExamples(s, i) ==
  IF i > Len(s) THEN <<>>
  ELSE IF DocsCodeBody(s, i) = 0 THEN DocsCodeExamples(s, i + 1)
  ELSE SelectSeq(<<Trim(SubSeq(s, DocsCodeBody(s, i),
                               DocsCodeEnd(s, i) - Len(DocsCodeClose) - 1))>>, NonEmpty)
         \o DocsCodeExamples(s, DocsCodeEnd(s, i))

\* [^>]*?name=['"]([^'"]+)['"] from position j on: the position of the
\* capture, or 0
AttrValueAt(s, j, name) ==
  LET ats == { k \in j..Len(s) :
                 /\ StartsWith(SubSeq(s, k, Len(s)), name \o "=")
                 /\ \A x \in j..(k - 1) : CharAt(s, x) # ">"
                 /\ k + Len(name) + 1 <= Len(s)
                 /\ CharAt(s, k + Len(name) + 1) \in Quotes
                 /\ LET v == k + Len(name) + 2
                        n == RunLength(SubSeq(s, v, Len(s)), Quotes, FALSE)
                    IN  n >= 1 /\ v + n <= Len(s) }
  IN  IF ats = {} THEN 0 ELSE Least(ats) + Len(name) + 2

\* the value captured at position v
AttrValue(s, v) == SubSeq(s, v, v + RunLength(SubSeq(s, v, Len(s)), Quotes, FALSE) - 1)

\* the position after the value captured at position v and its quote
AfterValue(s, v) == v + Len(AttrValue(s, v)) + 1

\* /<docs-code[^>]*?header=['"]([^'"]+)['"][^>]*?path=['"]([^'"]+)['"][^>]*?>/
\* at position i: the positions of the two captures and the position after
\* the match, or nothing
HeaderPathAt(s, i) ==
  LET h == AttrValueAt(s, i + Len(DocsCodeOpen), "header")
      a == IF h = 0 THEN 0 ELSE AttrValueAt(s, AfterValue(s, h), "path")
      g == IF a = 0 THEN 0
           ELSE AfterValue(s, a)
                  + RunLength(SubSeq(s, AfterValue(s, a), Len(s)), {">"}, FALSE)
  IN  IF StartsWith(SubSeq(s, i, Len(s)), DocsCodeOpen) /\ a # 0 /\ g <= Len(s)
      THEN <<h, a, g + 1>> ELSE <<>>

\* content.matchAll of the header and path expression from position i on
RECURSIVE HeaderPathExamples(_, _)
HeaderPathExamples(s, i) ==
  IF i > Len(s) THEN <<>>
  ELSE IF HeaderPathAt(s, i) = <<>> THEN HeaderPathExamples(s, i + 1)
  ELSE << "// Header: " \o AttrValue(s, HeaderPathAt(s, i)[1])
            \o "\n// Path reference: " \o AttrValue(s, HeaderPathAt(s, i)[2])
            \o "\n// Actual code would be loaded from this path" >>
         \o HeaderPathExamples(s, HeaderPathAt(s, i)[3])

\* /visibleRegion=['"]([^'"]+)['"]/ at position i: the position of the
\* capture, or 0
VisibleRegionAt(s, i) ==
  LET v == i + Len("visibleRegion=") + 1
      n == RunLength(SubSeq(s, v, Len(s)), Quotes, FALSE)
  IN  IF /\ StartsWith(SubSeq(s, i, Len(s)), "visibleRegion=")
         /\ v - 1 <= Len(s) /\ CharAt(s, v - 1) \in Quotes
         /\ n >= 1 /\ v + n <= Len(s)
      THEN v ELSE 0

\* content.matchAll of the visibleRegion expression from position i on
RECURSIVE VisibleRegionExamples(_, _)
VisibleRegionExamples(s, i) ==
  IF i > Len(s) THEN <<>>
  ELSE IF VisibleRegionAt(s, i) = 0 THEN VisibleRegionExamples(s, i + 1)
  ELSE << "// Visible region: " \o AttrValue(s, VisibleRegionAt(s, i))
            \o "\n// This references a specific section of code in an example file" >>
         \o VisibleRegionExamples(s, AfterValue(s, VisibleRegionAt(s, i)))

\* example.includes('@if') || example.includes('@for') ||
\* example.includes('@switch')
UsesModernSyntax(code) ==
  Includes(code, "@if") \/ Includes(code, "@for") \/ Includes(code, "@switch")

\* the indicator put before an example of the modern control flow syntax
MarkModern(example) ==
  IF UsesModernSyntax(example)
  THEN "// Modern Angular control flow syntax\n" \o example ELSE example

\* extractCodeExamples
extractCodeExamples(content) ==
  LET found == FencedExamples(content) \o DocsCodeExamples(content, 1)
                 \o HeaderPathExamples(content, 1) \o VisibleRegionExamples(content, 1)
  IN  [n \in 1..Len(found) |-> MarkModern(found[n])]

(***************************************************************************)
(* Documentation Index: searchTopics and getBestPractices, and the         *)
(* getBestPractices tool on top of the latter.  Both loop over the topics  *)
(* of a Source; source.getSections() and section.getTopics() return        *)
(* copies, and a Section is complete when it is attached, so that the loop *)
(* visits the topics the Source held when the loop started.                *)
(***************************************************************************)

\* the searches and getBestPractices tool invocations one behaviour may start
MaxQueries == 1

\* the source identifiers callers pass to searchTopics
SearchSourceInputs(fw) == {FrameworkSources[fw][1], "no-such-source"}

\* the queries callers pass to searchTopics
QueryInputs == {"", "Component"}

\* the framework argument of the tool: z.enum(['angular', 'nestjs'])
ToolFrameworks == {"angular", "nestjs"}

\* the component argument of the tool
ComponentInputs == {"c", "pipe"}

NoScan == [query |-> "", held |-> <<>>, todo |-> <<>>, out |-> <<>>,
           practices |-> <<>>, matched |-> FALSE]

NoToolReply == [status |-> "", count |-> 0]

QryInit ==
  /\ scan = [p \in Procs |-> NoScan]
  /\ reply = [p \in Procs |-> NoToolReply]
  /\ nqueries = 0

\* a match that no topic fails
Matches_Always(topic, normalizedQuery) == TRUE

\* a match that asks for fetched content
Matches_Fetched(topic, normalizedQuery) ==
  topic.content # "" /\ Includes(ToLowerCase(topic.content), normalizedQuery)

\* topicWithContent.getTitle().toLowerCase().includes(normalizedQuery) ||
\* topicWithContent.getContent().toLowerCase().includes(normalizedQuery)
Matches(topic, normalizedQuery) ==
  \/ Includes(ToLowerCase(topic.title), normalizedQuery)
  \/ Includes(ToLowerCase(topic.content), normalizedQuery)

\* results.push(topicWithContent), under the test of the query
Found(out, topic, normalizedQuery) ==
  IF Matches(topic, normalizedQuery) THEN Append(out, topic) ELSE out

\* the loop of searchTopics over the topics that carry content, up to the
\* first topic whose content is to be fetched or to the end of the topics
RECURSIVE SearchReady(_)
SearchReady(sc) ==
  IF sc.todo = <<>> \/ Head(sc.todo).content = "" THEN sc
  ELSE SearchReady([sc EXCEPT !.todo = Tail(@),
                              !.out = Found(@, Head(sc.todo), sc.query)])

\* searchTopics suspends at the fetch of the next topic, or returns
SearchContinue(p, sc) ==
  /\ scan' = [scan EXCEPT ![p] = SearchReady(sc)]
  /\ pc' = [pc EXCEPT ![p] = IF SearchReady(sc).todo = <<>> THEN "done"
                              ELSE "searchFetch"]
  /\ result' = [result EXCEPT ![p] =
                  IF SearchReady(sc).todo = <<>>
                  THEN [NoResult EXCEPT !.kind = "topics"] ELSE NoResult]

\* searchTopics(sourceId, query), up to its first await or its return
CallSearch(p, sourceId, query) ==
  /\ CanStart(p)
  /\ nqueries < MaxQueries
  /\ nqueries' = nqueries + 1
  /\ ncalls' = ncalls + 1
  /\ call' = [call EXCEPT ![p] =
                [NoCall EXCEPT !.op = "search", !.sourceId = sourceId]]
  /\ UNCHANGED <<sections, walk, rootListings, returns, retFull, servedFull,
                 addressed, anaVars, regVars, prjVars, extVars, batVars, reply>>
  /\ LET topics == IF sourceId \in SourceIds THEN Flatten(sections[sourceId])
                   ELSE <<>>
     IN  SearchContinue(p, [NoScan EXCEPT !.query = ToLowerCase(query),
                                          !.held = topics, !.todo = topics])

\* the content searchTopics awaited arrives: the topic is tested as fetched
SearchFetched(p, raw) ==
  /\ pc[p] = "searchFetch"
  /\ UNCHANGED <<sections, call, walk, ncalls, rootListings, returns, retFull,
                 servedFull, addressed, anaVars, regVars, prjVars, extVars, batVars, reply, nqueries>>
  /\ SearchContinue(p, [scan[p] EXCEPT
                          !.todo = Tail(@),
                          !.out = Found(@, FetchedTopic(Head(scan[p].todo), raw),
                                        scan[p].query)])

\* bestPractices.push(...content), content being what extractBestPractices
\* returned for a topic that carries content
Gathered(sc, topic) ==
  [sc EXCEPT !.todo = Tail(@), !.matched = TRUE,
             !.practices = @ \o extractBestPractices(topic.content)]

\* the loop of getBestPractices over the topics that carry content, up to
\* the first topic whose content is to be fetched or to the end of the topics
RECURSIVE PracticesReady(_)
PracticesReady(sc) ==
  IF sc.todo = <<>> \/ Head(sc.todo).content = "" THEN sc
  ELSE PracticesReady(IF Matches(Head(sc.todo), sc.query)
                      THEN Gathered(sc, Head(sc.todo))
                      ELSE [sc EXCEPT !.todo = Tail(@)])

\* the reply of the tool to what getBestPractices returned
PracticesReply(bestPractices) ==
  IF Len(bestPractices) = 0 THEN [status |-> "warning", count |-> 0]
  ELSE [status |-> "success", count |-> Len(bestPractices)]

\* the reply of the tool when getBestPractices throws
ErrorReply == [status |-> "error", count |-> 0]

\* getBestPractices suspends at the fetch of the next topic, or returns and
\* the tool replies
PracticesContinue(p, sc) ==
  /\ scan' = [scan EXCEPT ![p] = PracticesReady(sc)]
  /\ IF PracticesReady(sc).todo = <<>>
     THEN /\ pc' = [pc EXCEPT ![p] = "done"]
          /\ result' = [result EXCEPT ![p] = [NoResult EXCEPT !.kind = "practices"]]
          /\ reply' = [reply EXCEPT ![p] = PracticesReply(PracticesReady(sc).practices)]
     ELSE /\ pc' = [pc EXCEPT ![p] = "practicesFetch"]
          /\ result' = [result EXCEPT ![p] = NoResult]
          /\ UNCHANGED reply

\* the getBestPractices tool calls getBestPractices(framework, component),
\* which calls getDocumentationSources
CallPractices(p, fw, component) ==
  /\ nqueries < MaxQueries
  /\ nqueries' = nqueries + 1
  /\ StartSources(p, "practices", fw)
  /\ scan' = [scan EXCEPT ![p] = [NoScan EXCEPT !.query = ToLowerCase(component)]]
  /\ reply' = [reply EXCEPT ![p] = IF result'[p].kind = "throw" THEN ErrorReply
                                   ELSE NoToolReply]
  /\ UNCHANGED <<prjVars, extVars, batVars>>

\* getDocumentationSources has returned to getBestPractices: the empty list
\* is returned when there is no Source, else the loop over the topics starts
PracticesStart(p) ==
  /\ pc[p] = "sourcesReturned"
  /\ UNCHANGED <<sections, call, walk, ncalls, rootListings, returns, retFull,
                 servedFull, addressed, anaVars, regVars, prjVars, extVars, batVars, nqueries>>
  /\ LET topics == IF Len(result[p].sources) = 0 THEN <<>>
                   ELSE Flatten(sections[result[p].sources[1]])
     IN  PracticesContinue(p, [scan[p] EXCEPT !.held = topics, !.todo = topics])

\* the content getBestPractices awaited arrives; a topic that matches and
\* still has no content is fetched once more by extractBestPractices
PracticesFetched(p, raw) ==
  /\ pc[p] = "practicesFetch"
  /\ UNCHANGED <<sections, call, walk, ncalls, rootListings, returns, retFull,
                 servedFull, addressed, anaVars, regVars, prjVars, extVars, batVars, nqueries>>
  /\ LET t == FetchedTopic(Head(scan[p].todo), raw) IN
       IF ~Matches(t, scan[p].query)
       THEN PracticesContinue(p, [scan[p] EXCEPT !.todo = Tail(@)])
       ELSE IF t.content # ""
       THEN PracticesContinue(p, Gathered(scan[p], t))
       ELSE /\ pc' = [pc EXCEPT ![p] = "extractFetch"]
            /\ scan' = [scan EXCEPT ![p].matched = TRUE]
            /\ UNCHANGED <<result, reply>>

\* the content extractBestPractices awaited arrives
ExtractFetched(p, raw) ==
  /\ pc[p] = "extractFetch"
  /\ UNCHANGED <<sections, call, walk, ncalls, rootListings, returns, retFull,
                 servedFull, addressed, anaVars, regVars, prjVars, extVars, batVars, nqueries>>
  /\ PracticesContinue(p, Gathered(scan[p], FetchedTopic(Head(scan[p].todo), raw)))

\* the invocation that walks the index without querying it, once, and the
\* one that queries it (and walks it from getBestPractices): a query writes
\* nothing into the index, so that two invocations of these kinds show a
\* query overlapping a walk, and two walks overlapping
Walker == "i1"

Querier == "i2"

\* the walks of the index, and the two operations that loop over its topics
QryNext ==
  \/ pc[Walker] = "idle" /\ CallSources(Walker, addressed)
  \/ \E p \in Procs :
       \/ \E resp \in ListingResponses(NestRootListings \cup AngularRootListings) :
            RootListed(p, resp)
       \/ \E resp \in ListingResponses(DirListings) : DirListed(p, resp)
       \/ \E raw \in RawContents : DirFileFetched(p, raw)
       \/ \E raw \in RawContents : TopFileFetched(p, raw)
  \/ \E sourceId \in SearchSourceInputs(addressed), query \in QueryInputs :
       CallSearch(Querier, sourceId, query)
  \/ \E raw \in RawContents : SearchFetched(Querier, raw)
  \/ \E component \in ComponentInputs : CallPractices(Querier, addressed, component)
  \/ PracticesStart(Querier)
  \/ \E raw \in RawContents : PracticesFetched(Querier, raw)
  \/ \E raw \in RawContents : ExtractFetched(Querier, raw)

(***************************************************************************)
(* Markdown Heuristics: extractBestPractices applied to documents          *)
(***************************************************************************)

\* the trigger occurrences deleted from one document, one after the other
MaxCuts == 3

\* a trigger heading whose section holds a deeper heading
TextSections == "## Guidelines\na\n### Naming\nb\n## Other\nc"

\* the same code block twice, the second one introduced by a trigger phrase
TextTwice ==
  "~~~html\n<!-- example -->\n~~~\nThe correct way:\n~~~html\n<!-- example -->\n~~~"

\* a trigger heading, a list and an introduced code block
TextMixed ==
  "# Conventions\n- always a\n- never b\nBest practice example:\n~~~html\nx\n~~~"

TextDos == "x\n## Do's and Don'ts\n1. should y"

PracticeTexts == {"plain", TextSections, TextTwice, TextMixed, TextDos}

\* the trigger headings of a document, each as <<position, length>>
HeadingTriggersAt(s) ==
  UNION { UNION { IF TriggerHeadingEnd(s, i, bestPracticeHeadings[n]) # 0
                  THEN {<<i, TriggerHeadingEnd(s, i, bestPracticeHeadings[n]) - i>>}
                  ELSE {} : n \in 1..Len(bestPracticeHeadings) } : i \in 1..Len(s) }

\* the trigger words that lie in a list block
ListTriggersAt(s) ==
  { c \in (1..Len(s)) \X { Len(w) : w \in ListTriggers } :
      /\ c[1] + c[2] - 1 <= Len(s)
      /\ SubSeq(ToLowerCase(s), c[1], c[1] + c[2] - 1) \in ListTriggers
      /\ \E j \in 1..c[1] : ItemEnd(s, j) # 0 /\ c[1] + c[2] <= ListEnd(s, j) }

\* the trigger phrases that lie in the text looked at before a code block
CodeTriggersAt(s) ==
  { c \in (1..Len(s)) \X { Len(w) : w \in CodeTriggers } :
      /\ c[1] + c[2] - 1 <= Len(s)
      /\ SubSeq(ToLowerCase(s), c[1], c[1] + c[2] - 1) \in CodeTriggers
      /\ \E b \in (c[1] + c[2])..Len(s) :
           CodeBlockEnd(s, b, PracticeLanguages) # 0 /\ b - PrecedingChars <= c[1] }

\* the Do's and Don'ts headings
DosTriggersAt(s) ==
  UNION { IF DosAndDontsEnd(s, i) # 0 THEN {<<i, DosAndDontsEnd(s, i) - i>>} ELSE {} :
          i \in 1..Len(s) }

\* the occurrences of a trigger in a document
TriggersAt(s) ==
  HeadingTriggersAt(s) \cup ListTriggersAt(s) \cup CodeTriggersAt(s) \cup DosTriggersAt(s)

\* the document without the occurrence c
Cut(s, c) == SubSeq(s, 1, c[1] - 1) \o SubSeq(s, c[1] + c[2], Len(s))

PracInit ==
  /\ regText = "" /\ regName = "" /\ regOuts = <<>>
  /\ docText \in PracticeTexts
  /\ docRuns = <<>>

\* the last run was on this document
WasExtracted(runs, s) == IF runs = <<>> THEN FALSE ELSE runs[Len(runs)].text = s

\* extractBestPractices on the document as it is now
ExtractPractices ==
  /\ ~WasExtracted(docRuns, docText)
  /\ docRuns' = Append(docRuns, [text |-> docText,
                                 passages |-> extractBestPractices(docText)])
  /\ UNCHANGED <<docText, regText, regName, regOuts, idxVars, anaVars, toolVars>>

\* the document changes: one occurrence of a trigger is deleted from it
DeleteTrigger(c) ==
  /\ WasExtracted(docRuns, docText)
  /\ Len(docRuns) <= MaxCuts
  /\ docText' = Cut(docText, c)
  /\ UNCHANGED <<docRuns, regText, regName, regOuts, idxVars, anaVars, toolVars>>

PracNext ==
  \/ ExtractPractices
  \/ \E c \in TriggersAt(docText) : DeleteTrigger(c)

(***************************************************************************)
(* Named-region extraction                                                 *)
(***************************************************************************)

\* the three comment styles of a region marker: what opens and closes it
MarkerStyles == << [open |-> "//", close |-> ""],
                   [open |-> "<!--", close |-> "-->"],
                   [open |-> "/*", close |-> "*/"] >>

\* Matching a pattern piece by piece: each step takes the position reached
\* so far (0 once the match has failed) and gives the position after the
\* piece it consumes.

\* a literal
Expect(s, i, lit) ==
  IF i > 0 /\ StartsWith(SubSeq(s, i, Len(s)), lit) THEN i + Len(lit) ELSE 0

\* \s* when `some' is FALSE, \s+ when it is TRUE
SkipSpaces(s, i, some) ==
  IF i = 0 \/ (some /\ (i > Len(s) \/ ~IsSpace(CharAt(s, i)))) THEN 0
  ELSE i + RunLength(SubSeq(s, i, Len(s)), WhiteSpace, TRUE)

\* ( \s* close )? of the styles that close their comment
ExpectClose(s, i, close) ==
  IF close = "" THEN i ELSE Expect(s, SkipSpaces(s, i, FALSE), close)

\* [\r\n]
ExpectLineBreak(s, i) ==
  IF i > 0 /\ i <= Len(s) /\ CharAt(s, i) \in {"\r", "\n"} THEN i + 1 ELSE 0

\* the length of the match of a marker pattern at position i of s, 0 when
\* the pattern does not match there:
\*   open \s* keyword \s+ regionName ( \s* close )? [\r\n]
MarkerMatch(s, i, style, keyword, regionName) ==
  LET end == ExpectLineBreak(s,
               ExpectClose(s,
                 Expect(s,
                   SkipSpaces(s,
                     Expect(s,
                       SkipSpaces(s, Expect(s, i, style.open), FALSE),
                       keyword),
                     TRUE),
                   regionName),
                 style.close))
  IN  IF end = 0 THEN 0 ELSE end - i

\* pattern.exec(s): the position of the leftmost match, 0 when there is none
MarkerExec(s, style, keyword, regionName) ==
  LET hits == { i \in 1..Len(s) : MarkerMatch(s, i, style, keyword, regionName) > 0 }
  IN  IF hits = {} THEN 0 ELSE CHOOSE i \in hits : \A j \in hits : i <= j

\* of the leftmost matches of the patterns (style -> position, 0 for no
\* match), the one that comes first; style 0 when no pattern matches
EarliestOf(at) ==
  LET matched == { k \in DOMAIN at : at[k] > 0 }
      first   == CHOOSE k \in matched :
                   \A m \in matched : at[k] < at[m] \/ (at[k] = at[m] /\ k <= m)
  IN  IF matched = {} THEN [style |-> 0, index |-> 0]
      ELSE [style |-> first, index |-> at[first]]

\* the loop over the patterns of one keyword
EarliestMatch(s, keyword, regionName) ==
  EarliestOf([k \in DOMAIN MarkerStyles |->
                MarkerExec(s, MarkerStyles[k], keyword, regionName)])

\* extractVisibleRegion, from the end-marker search on
ExtractUpTo(contentAfterStart, startMarkerLength, end) ==
  IF end.style = 0
  THEN SubSeq(contentAfterStart, startMarkerLength + 1, Len(contentAfterStart))
  ELSE Trim(SubSeq(contentAfterStart, startMarkerLength + 1, end.index - 1))

\* extractVisibleRegion, once the start marker is found: the start pattern
\* matches contentAfterStart at its first character
ExtractAfter(contentAfterStart, startStyle, regionName) ==
  ExtractUpTo(contentAfterStart,
              MarkerMatch(contentAfterStart, 1, MarkerStyles[startStyle],
                          "#docregion", regionName),
              EarliestMatch(contentAfterStart, "#enddocregion", regionName))

\* extractVisibleRegion, from the start-marker search on
ExtractFrom(fileContent, start, regionName) ==
  IF start.style = 0 THEN fileContent
  ELSE ExtractAfter(SubSeq(fileContent, start.index, Len(fileContent)),
                    start.style, regionName)

\* extractVisibleRegion(fileContent, regionName)
extractVisibleRegion(fileContent, regionName) ==
  IF fileContent = "" \/ regionName = "" THEN fileContent
  ELSE ExtractFrom(fileContent, EarliestMatch(fileContent, "#docregion", regionName),
                   regionName)

\* the lines the extracted files are made of
RegionLines ==
  {"// #docregion R\n", "// #enddocregion R\n", "B\n", "<!--#docregion R-->\n",
   "/* #enddocregion R */\r", "// #enddocregion R", "// #docregion Q\n"}

\* the lines of a file
MaxLines == 4

\* extraction is applied to a file, then to its own result
MaxExtract == 2

RegionNames == {"R", ""}

\* the files of at most n lines
RECURSIVE RegionTexts(_)
RegionTexts(n) ==
  IF n = 0 THEN {""}
  ELSE LET shorter == RegionTexts(n - 1)
       IN  shorter \cup { t \o l : t \in shorter, l \in RegionLines }

RegInit ==
  /\ regText \in RegionTexts(MaxLines)
  /\ regName \in RegionNames
  /\ regOuts = <<>>
  /\ docText = ""
  /\ docRuns = <<>>

\* an extractVisibleRegion call, on the file and then on what it returned
ExtractVisibleRegion ==
  /\ Len(regOuts) < MaxExtract
  /\ regOuts' = Append(regOuts,
                  extractVisibleRegion(IF regOuts = <<>> THEN regText
                                       ELSE regOuts[Len(regOuts)], regName))
  /\ UNCHANGED <<regText, regName, docText, docRuns, idxVars, anaVars, toolVars>>

RegNext == ExtractVisibleRegion

(***************************************************************************)
(* Documentation Index: code extraction by path                            *)
(* (extractCodeFromDocumentationPath)                                      *)
(***************************************************************************)

GITHUB_RAW_CONTENT_BASE == "https://raw.githubusercontent.com"

GITHUB_API_BASE == "https://api.github.com/repos"

GitHubPrefix == "https://github.com/"

\* s.split('/')
RECURSIVE Split(_)
Split(s) ==
  IF IndexOf(s, "/") = 0 THEN <<s>>
  ELSE <<SubSeq(s, 1, IndexOf(s, "/") - 1)>>
         \o Split(SubSeq(s, IndexOf(s, "/") + 1, Len(s)))

\* parts.join('/')
RECURSIVE JoinPath(_)
JoinPath(parts) ==
  IF parts = <<>> THEN ""
  ELSE IF Len(parts) = 1 THEN parts[1]
  ELSE parts[1] \o "/" \o JoinPath(Tail(parts))

\* "Determinar el repositorio y propietario basado en la ruta"
DefaultRepository(repoPath) ==
  IF Includes(repoPath, "nestjs") \/ Includes(repoPath, "docs.nestjs.com")
  THEN [owner |-> "nestjs", repo |-> "docs.nestjs.com", branch |-> "master",
        cleanPath |-> repoPath]
  ELSE [owner |-> "angular", repo |-> "angular", branch |-> "main",
        cleanPath |-> repoPath]

\* "Limpiar la ruta si contiene prefijos de repositorio": owner, repo, branch
\* and cleanPath
ParsePath(repoPath) ==
  LET parts == Split(ReplaceFirst(repoPath, GitHubPrefix, ""))
  IN  IF StartsWith(repoPath, GitHubPrefix) /\ Len(parts) >= 2
      THEN IF Len(parts) >= 4 /\ parts[3] \in {"blob", "tree"}
           THEN [owner |-> parts[1], repo |-> parts[2], branch |-> parts[4],
                 cleanPath |-> JoinPath(SubSeq(parts, 5, Len(parts)))]
           ELSE [DefaultRepository(repoPath) EXCEPT
                   !.owner = parts[1], !.repo = parts[2],
                   !.cleanPath = JoinPath(SubSeq(parts, 3, Len(parts)))]
      ELSE DefaultRepository(repoPath)

\* the address of the file's metadata
ApiUrl(at) ==
  GITHUB_API_BASE \o "/" \o at.owner \o "/" \o at.repo \o "/contents/"
    \o at.cleanPath \o "?ref=" \o at.branch

\* the address of the file's raw content
RawUrl(at) ==
  GITHUB_RAW_CONTENT_BASE \o "/" \o at.owner \o "/" \o at.repo \o "/"
    \o at.branch \o "/" \o at.cleanPath

\* cleanPath.split('/').pop()
FileName(cleanPath) == Split(cleanPath)[Len(Split(cleanPath))]

\* the placeholder returned when no strategy gave the code
ErrorMarker == "// Error"

Placeholder(cleanPath, visibleRegion) ==
  "// Error: No se pudo obtener el código para " \o cleanPath
    \o (IF visibleRegion # "" THEN " con región " \o visibleRegion ELSE "")

\* the arguments callers pass: no path; a path whose file name is that of a
\* documentation topic, without and with a region; a path with a region name
\* that is no regular expression; the path of a directory
ExtractInputs ==
  { <<"", "">>,
    <<"adev/c.md", "">>,
    <<"https://github.com/nestjs/docs/blob/dev/guide/c.md", "R">>,
    <<"adev/a.ts", "(">>,
    <<"adev/", "">> }

\* region names with which new RegExp throws
BrokenRegionNames == {"("}

\* the text of a remote example file
FileTexts == {"", "x\n// #docregion R\ny\n// #enddocregion R\nz"}

\* an axios.get of the file's metadata: rejected, or resolved with or without
\* a download_url
ApiResponses ==
  { [status |-> "error", download_url |-> ""],
    [status |-> "ok", download_url |-> ""],
    [status |-> "ok", download_url |-> GITHUB_RAW_CONTENT_BASE \o "/dl"] }

\* an axios.get of the file's content: rejected, or resolved with a string or
\* with what axios parsed out of it
FileResponses ==
  { [status |-> "error", isString |-> FALSE, text |-> ""],
    [status |-> "ok", isString |-> FALSE, text |-> ""] }
  \cup { [status |-> "ok", isString |-> TRUE, text |-> t] : t \in FileTexts }

\* the text of a remote markdown file that shows an example
ExampleTexts == {"~~~html\n<p>\n~~~"}

\* fetchRawGitHubContent, for the topics Plan C asks for
ExampleContents ==
  RawContents \cup { [isString |-> TRUE, text |-> t] : t \in ExampleTexts }

NoValue == [kind |-> "none", text |-> ""]

StringValue(text) == [kind |-> "string", text |-> text]

ObjectValue == [kind |-> "object", text |-> ""]

Thrown == [kind |-> "throw", text |-> ""]

NoExt == [repoPath |-> "", visibleRegion |-> "", at |-> DefaultRepository(""),
          requests |-> <<>>, started |-> <<>>, trail |-> <<>>, srcs |-> <<>>, cur |-> "",
          todo |-> <<>>, served |-> {}, out |-> NoValue]

ExtInit == ext = [p \in Procs |-> NoExt]

\* what a strategy makes of the fetched contentResponse.data:
\* extractVisibleRegion when a region is asked for, which throws when the
\* region name is no regular expression
RegionOf(data, visibleRegion) ==
  IF visibleRegion = ""
  THEN IF data.isString THEN StringValue(data.text) ELSE ObjectValue
  ELSE IF data.isString /\ data.text = "" THEN StringValue("")
  ELSE IF visibleRegion \in BrokenRegionNames THEN Thrown
  ELSE IF ~data.isString THEN ObjectValue
  ELSE StringValue(extractVisibleRegion(data.text, visibleRegion))

\* the record of an extraction once a strategy has started: the direct
\* fetch (metadata, then content), Plan B or Plan C
Started(e, strategy) == [e EXCEPT !.started = Append(@, strategy)]

\* the record of an extraction once a strategy has ended: a try block that
\* returned, a catch block entered, or the search left without a return
Ended(e, strategy, outcome) ==
  [e EXCEPT !.trail = Append(@, [strategy |-> strategy, outcome |-> outcome])]

\* extractCodeFromDocumentationPath returns
ExtReturn(p, e, value) ==
  /\ ext' = [ext EXCEPT ![p] = [e EXCEPT !.out = value]]
  /\ pc' = [pc EXCEPT ![p] = "done"]
  /\ result' = [result EXCEPT ![p] = [NoResult EXCEPT !.kind = "code"]]

\* the locals of extractCodeFromDocumentationPath once the path is parsed
Parsed(repoPath, visibleRegion) ==
  [NoExt EXCEPT !.repoPath = repoPath, !.visibleRegion = visibleRegion,
                !.at = ParsePath(repoPath)]

\* the locals at the first await, that of the file's metadata
Begun(repoPath, visibleRegion) ==
  [Started(Parsed(repoPath, visibleRegion), "direct") EXCEPT
     !.requests = <<ApiUrl(ParsePath(repoPath))>>]

\* extractCodeFromDocumentationPath(repoPath, visibleRegion), up to its first
\* await or its return
ExtBegin(p, repoPath, visibleRegion) ==
  /\ call' = [call EXCEPT ![p] = [NoCall EXCEPT !.op = "extract"]]
  /\ IF repoPath = ""
     THEN ExtReturn(p, Parsed(repoPath, visibleRegion), StringValue(""))
     ELSE /\ ext' = [ext EXCEPT ![p] = Begun(repoPath, visibleRegion)]
          /\ pc' = [pc EXCEPT ![p] = "extApi"]
          /\ result' = [result EXCEPT ![p] = NoResult]

\* an invocation calls extractCodeFromDocumentationPath
CallExtract(p, repoPath, visibleRegion) ==
  /\ CanStart(p)
  /\ ncalls' = ncalls + 1
  /\ ExtBegin(p, repoPath, visibleRegion)
  /\ UNCHANGED <<sections, walk, rootListings, returns, retFull, servedFull,
                 addressed, anaVars, regVars, prjVars, qryVars, batVars>>

\* Plan B: the raw address built from the path is requested
PlanB(p) ==
  /\ ext' = [ext EXCEPT ![p] = [Started(Ended(ext[p], "direct", "failed"), "raw")
                                  EXCEPT !.requests = Append(@, RawUrl(ext[p].at))]]
  /\ pc' = [pc EXCEPT ![p] = "extRawB"]
  /\ UNCHANGED <<sections, call, walk, result, rootListings, returns, retFull,
                 servedFull, addressed, anaVars, regVars>>

\* the request of the file's metadata is answered: the content is requested at
\* the download_url, or at the raw address when there is none; Plan B when the
\* request failed
ExtApiAnswered(p, resp) ==
  /\ pc[p] = "extApi"
  /\ UNCHANGED <<ncalls, prjVars, qryVars>>
  /\ IF resp.status = "error" THEN PlanB(p)
     ELSE /\ ext' = [ext EXCEPT ![p].requests =
                       Append(@, IF resp.download_url # "" THEN resp.download_url
                                 ELSE RawUrl(ext[p].at))]
          /\ pc' = [pc EXCEPT ![p] = "extRawA"]
          /\ UNCHANGED <<sections, call, walk, result, rootListings, returns,
                         retFull, servedFull, addressed, anaVars, regVars>>

\* the content requested after the metadata is answered
ExtRawAAnswered(p, resp) ==
  /\ pc[p] = "extRawA"
  /\ UNCHANGED <<ncalls, prjVars, qryVars>>
  /\ IF resp.status = "error" \/ RegionOf(resp, ext[p].visibleRegion) = Thrown
     THEN PlanB(p)
     ELSE /\ ExtReturn(p, Ended(ext[p], "direct", "returned"),
                       RegionOf(resp, ext[p].visibleRegion))
          /\ UNCHANGED <<sections, call, walk, rootListings, returns, retFull,
                         servedFull, addressed, anaVars, regVars>>

\* codeExamples.find(ex => ex.includes(visibleRegion) ||
\*   ex.toLowerCase().includes(fileName.toLowerCase())), else codeExamples[0]
ChooseExample(codeExamples, visibleRegion, fileName) ==
  LET hits == { n \in 1..Len(codeExamples) :
                  \/ Includes(codeExamples[n], visibleRegion)
                  \/ Includes(ToLowerCase(codeExamples[n]), ToLowerCase(fileName)) }
  IN  IF visibleRegion # "" /\ hits # {} THEN codeExamples[Least(hits)]
      ELSE codeExamples[1]

\* fullTopic && fullTopic.getContent() && codeExamples.length > 0
HasExample(fullTopic) ==
  fullTopic.content # "" /\ Len(extractCodeExamples(fullTopic.content)) > 0

\* what Plan C returns from a topic with an example
ExampleOf(e, fullTopic) ==
  StringValue(ChooseExample(extractCodeExamples(fullTopic.content),
                            e.visibleRegion, FileName(e.at.cleanPath)))

\* the topic getTopicById finds for the topic the loops of Plan C are at
Full(e) == FindTopic(e.cur, Head(e.todo).id)

\* the loops of Plan C over the sources, up to the first topic whose address
\* holds the file name and that getTopicById has to fetch or returns with an
\* example: the topics of a Source are read when its turn comes
RECURSIVE NextCandidate(_)
NextCandidate(e) ==
  IF e.todo = <<>>
  THEN IF e.srcs = <<>> THEN e
       ELSE NextCandidate([e EXCEPT !.cur = Head(e.srcs), !.srcs = Tail(e.srcs),
                                    !.todo = Flatten(sections[Head(e.srcs)])])
  ELSE IF ~Includes(Head(e.todo).url, FileName(e.at.cleanPath)) \/ Full(e) = NoTopic
       THEN NextCandidate([e EXCEPT !.todo = Tail(e.todo)])
       ELSE IF Full(e).content = "" \/ HasExample(Full(e)) THEN e
       ELSE NextCandidate([e EXCEPT !.todo = Tail(e.todo),
                                    !.served = @ \cup {<<e.cur, Head(e.todo).id>>}])

\* Plan C where its loops have come to with locals n: it suspends at the
\* fetch getTopicById awaits, returns the example of a topic that has one, or
\* ends with the placeholder
SearchAt(p, n) ==
  IF n.todo = <<>>
  THEN /\ ExtReturn(p, Ended(n, "search", "failed"),
                    StringValue(Placeholder(n.at.cleanPath, n.visibleRegion)))
       /\ servedFull' = servedFull \cup n.served
  ELSE IF Full(n).content = ""
  THEN /\ ext' = [ext EXCEPT ![p] = n]
       /\ pc' = [pc EXCEPT ![p] = "extTopic"]
       /\ servedFull' = servedFull \cup n.served
       /\ UNCHANGED result
  ELSE /\ ExtReturn(p, Ended(n, "search", "returned"), ExampleOf(n, Full(n)))
       /\ servedFull' = servedFull \cup n.served \cup {<<n.cur, Head(n.todo).id>>}

\* Plan C goes on from locals e
SearchOn(p, e) == SearchAt(p, NextCandidate(e))

\* Plan C: the file name is searched for in the index, which
\* getDocumentationSources('angular') opens; the placeholder when the path
\* ends with no file name
PlanC(p) ==
  IF FileName(ext[p].at.cleanPath) = ""
  THEN /\ ExtReturn(p, Ended(ext[p], "raw", "failed"),
            StringValue(Placeholder(ext[p].at.cleanPath, ext[p].visibleRegion)))
       /\ UNCHANGED <<sections, call, walk, rootListings, returns, retFull,
                      servedFull, addressed, anaVars, regVars>>
  ELSE /\ ext' = [ext EXCEPT ![p] = Started(Ended(ext[p], "raw", "failed"), "search")]
       /\ EnterSources(p, "extract", "angular")

\* Plan B without Plan C behind it
ExtRawBAnswered_NoSearch(p, resp) ==
  /\ pc[p] = "extRawB"
  /\ UNCHANGED <<ncalls, prjVars, qryVars, sections, call, walk, rootListings,
                 returns, retFull, servedFull, addressed, anaVars, regVars>>
  /\ IF resp.status = "error" \/ RegionOf(resp, ext[p].visibleRegion) = Thrown
     THEN ExtReturn(p, Ended(ext[p], "raw", "failed"),
            StringValue(Placeholder(ext[p].at.cleanPath, ext[p].visibleRegion)))
     ELSE ExtReturn(p, Ended(ext[p], "raw", "returned"),
                    RegionOf(resp, ext[p].visibleRegion))

\* the content requested at the raw address is answered
ExtRawBAnswered(p, resp) ==
  /\ pc[p] = "extRawB"
  /\ UNCHANGED <<ncalls, prjVars, qryVars>>
  /\ IF resp.status = "error" \/ RegionOf(resp, ext[p].visibleRegion) = Thrown
     THEN PlanC(p)
     ELSE /\ ExtReturn(p, Ended(ext[p], "raw", "returned"),
                       RegionOf(resp, ext[p].visibleRegion))
          /\ UNCHANGED <<sections, call, walk, rootListings, returns, retFull,
                         servedFull, addressed, anaVars, regVars>>

\* getDocumentationSources has returned to Plan C: the sources of 'nestjs'
\* are asked for after those of 'angular', then the loops start
ExtSourcesReturned(p) ==
  /\ pc[p] = "extSources"
  /\ UNCHANGED <<ncalls, prjVars, qryVars>>
  /\ IF call[p].framework = "angular"
     THEN /\ EnterSources(p, "extract", "nestjs")
          /\ UNCHANGED ext
     ELSE /\ SearchOn(p, [ext[p] EXCEPT !.srcs = FrameworkSources["angular"]
                                                   \o FrameworkSources["nestjs"]])
          /\ UNCHANGED <<sections, call, walk, rootListings, returns, retFull,
                         addressed, anaVars, regVars>>

\* getTopicById returns fullTopic to Plan C: its example is returned, or the
\* loops go on
TopicArrived(p, fullTopic) ==
  IF HasExample(fullTopic)
  THEN /\ ExtReturn(p, Ended(ext[p], "search", "returned"),
                    ExampleOf(ext[p], fullTopic))
       /\ servedFull' = servedFull \cup {<<ext[p].cur, fullTopic.id>>}
  ELSE SearchOn(p, [ext[p] EXCEPT
                      !.todo = Tail(@),
                      !.served = IF fullTopic.content = "" THEN {}
                                 ELSE {<<ext[p].cur, fullTopic.id>>}])

\* the content getTopicById awaited for Plan C arrives
ExtTopicFetched(p, raw) ==
  /\ pc[p] = "extTopic"
  /\ UNCHANGED <<ncalls, prjVars, qryVars, sections, call, walk, rootListings,
                 returns, retFull, addressed, anaVars, regVars>>
  /\ TopicArrived(p, FetchedTopic(Full(ext[p]), raw))

\* the extractions of a run
MaxExtractions == 1

\* one extraction by path, with the walks of the index its Plan C starts
ExtNext ==
  \E p \in Procs :
    \/ ncalls < MaxExtractions
         /\ \E in \in ExtractInputs : CallExtract(p, in[1], in[2])
    \/ UNCHANGED batVars /\ \E resp \in ApiResponses : ExtApiAnswered(p, resp)
    \/ UNCHANGED batVars /\ \E resp \in FileResponses : ExtRawAAnswered(p, resp)
    \/ UNCHANGED batVars /\ \E resp \in FileResponses : ExtRawBAnswered(p, resp)
    \/ UNCHANGED batVars /\ ExtSourcesReturned(p)
    \/ UNCHANGED batVars /\ \E raw \in ExampleContents : ExtTopicFetched(p, raw)
    \/ \E resp \in ListingResponses(NestRootListings \cup AngularRootListings) :
         RootListed(p, resp)
    \/ \E resp \in ListingResponses(DirListings) : DirListed(p, resp)
    \/ \E raw \in RawContents : DirFileFetched(p, raw)
    \/ \E raw \in RawContents : TopFileFetched(p, raw)

(***************************************************************************)
(* extractMultipleCodeSnippets tool: bulk extraction in batches             *)
(***************************************************************************)

\* the groups a run of the loop awaits
MaxRounds == 4

\* the batchSize argument: z.number().optional(), any number
BatchSizes == {-1, 0, 1, 2}

\* the elements of the selectors argument: a path, a docs-code element with a
\* header, an element with neither selector nor path, and (below) a docs-code
\* element without a header
PathSelector ==
  [selector |-> "", path |-> "adev/a.ts", visibleRegion |-> "", description |-> "one"]

DocsSelector ==
  [selector |-> "<docs-code header='h' path='adev/c.md'/>", path |-> "",
   visibleRegion |-> "", description |-> "two"]

BareSelector ==
  [selector |-> "", path |-> "", visibleRegion |-> "R", description |-> "three"]

\* a docs-code element without a header
PlainDocsElement == "<docs-code path='adev/c.md'/>"

PlainDocsSelector ==
  [selector |-> PlainDocsElement, path |-> "", visibleRegion |-> "",
   description |-> "four"]

\* the selectors argument
SelectorLists ==
  { <<>>, <<BareSelector>>, <<PathSelector, DocsSelector>>,
    <<DocsSelector, BareSelector, PathSelector>>,
    <<PlainDocsSelector, DocsSelector, BareSelector>> }

\* the invocations that run the extractions of a group, in batch order
Slots == <<"i1", "i2">>

SlotOf(p) == CHOOSE j \in 1..Len(Slots) : Slots[j] = p

\* a relative index of Array.prototype.slice on an array of n elements
SliceIndex(n, a) == IF a < 0 THEN Greatest({n + a, 0}) ELSE Least({a, n})

\* selectors.slice(i, i + batchSize), as the positions it takes
Batch(n, i, batchSize) ==
  [k \in 1..(SliceIndex(n, i + batchSize) - SliceIndex(n, i)) |-> SliceIndex(n, i) + k]

\* docsCodeElement.match(/name=["']([^"']+)["']/): the capture, '' without match
MatchAttr(s, name) ==
  LET ats == { k \in 1..Len(s) :
                 /\ StartsWith(SubSeq(s, k, Len(s)), name \o "=")
                 /\ k + Len(name) + 1 <= Len(s)
                 /\ CharAt(s, k + Len(name) + 1) \in Quotes
                 /\ LET v == k + Len(name) + 2
                        n == RunLength(SubSeq(s, v, Len(s)), Quotes, FALSE)
                    IN  n >= 1 /\ v + n <= Len(s) }
  IN  IF ats = {} THEN "" ELSE AttrValue(s, Least(ats) + Len(name) + 2)

NoEntry == [description |-> "", path |-> "", visibleRegion |-> "", codeType |-> "",
            usesModernSyntax |-> FALSE, code |-> "", error |-> ""]

\* the codeType of a result: by the extension of the path, else by the code
CodeType(path, code) ==
  IF path # ""
  THEN IF EndsWith(path, ".html") THEN "html"
       ELSE IF EndsWith(path, ".ts") THEN "typescript"
       ELSE IF EndsWith(path, ".js") THEN "javascript"
       ELSE IF EndsWith(path, ".css") THEN "css"
       ELSE IF EndsWith(path, ".scss") THEN "scss"
       ELSE "unknown"
  ELSE IF Includes(code, "<") /\ Includes(code, ">") /\ ~Includes(code, "import ")
       THEN "html"
  ELSE IF Includes(code, "import") \/ Includes(code, "class")
            \/ Includes(code, "interface")
       THEN "typescript"
  ELSE "unknown"

\* the result of a selector whose code is a string; null is rendered as ''
Entry(info, code) ==
  [description |-> IF info.description # "" THEN info.description
                   ELSE IF info.visibleRegion # "" THEN info.visibleRegion
                   ELSE "Fragmento de codigo",
   path |-> info.path,
   visibleRegion |-> info.visibleRegion,
   codeType |-> CodeType(info.path, code),
   usesModernSyntax |-> Includes(code, "@if") \/ Includes(code, "@for")
                          \/ Includes(code, "@switch"),
   code |-> code,
   error |-> IF StartsWith(code, ErrorMarker) THEN code ELSE ""]

\* the result of a selector with neither a docs-code element nor a path;
\* the fields it lacks are rendered as ''
Incomplete(info) ==
  [NoEntry EXCEPT
     !.error = "Configuracion incompleta: se requiere 'selector' o 'path'",
     !.description = IF info.description # "" THEN info.description
                     ELSE "Desconocido"]

NoTask == [index |-> 0, docs |-> FALSE, header |-> "", repoPath |-> "",
           region |-> "", state |-> "none", entry |-> NoEntry]

\* the async function of batch.map for selector k, up to its first await on
\* a request: extractDocsCodeExample for a docs-code element, which returns
\* at once when the element names no path, extractCodeFromDocumentationPath
\* for a path, the incomplete result otherwise
TaskStart(info, k) ==
  IF Includes(info.selector, DocsCodeOpen)
  THEN IF MatchAttr(info.selector, "path") = ""
       THEN [NoTask EXCEPT !.index = k, !.state = "fulfilled",
               !.entry = Entry(info, "// No path found in docs-code element: "
                                       \o info.selector)]
       ELSE [NoTask EXCEPT !.index = k, !.docs = TRUE, !.state = "pending",
               !.header = MatchAttr(info.selector, "header"),
               !.repoPath = MatchAttr(info.selector, "path"),
               !.region = MatchAttr(info.selector, "visibleRegion")]
  ELSE IF info.path # ""
  THEN [NoTask EXCEPT !.index = k, !.state = "pending",
          !.repoPath = info.path, !.region = info.visibleRegion]
  ELSE [NoTask EXCEPT !.index = k, !.state = "fulfilled", !.entry = Incomplete(info)]

\* String(value) of what an extraction returned
TextOf(value) == IF value.kind = "string" THEN value.text ELSE "[object Object]"

\* what the task holds in code once the extraction has returned:
\* extractDocsCodeExample puts the header in front
CodeOf(task, value) ==
  IF task.docs /\ task.header # ""
  THEN StringValue("// " \o task.header \o "\n" \o TextOf(value))
  ELSE value

\* the task once its extraction has returned: code.includes and
\* code.startsWith throw when the code is no string, which rejects the task
Settle(task, info, value) ==
  IF CodeOf(task, value).kind = "string"
  THEN [task EXCEPT !.state = "fulfilled",
                    !.entry = Entry(info, CodeOf(task, value).text)]
  ELSE [task EXCEPT !.state = "rejected"]

NoBatchReply ==
  [status |-> "",
   summary |-> [totalRequested |-> 0, successful |-> 0, failed |-> 0],
   groupedByType |-> [html |-> <<>>, typescript |-> <<>>, css |-> <<>>, other |-> <<>>],
   allResults |-> <<>>]

NoBatch == [selectors |-> <<>>, batchSize |-> 0, i |-> 0, group |-> <<>>,
            tasks |-> [p \in Procs |-> NoTask], results |-> <<>>, rounds |-> 0,
            status |-> "idle", reply |-> NoBatchReply]

\* the reply of extractAngularCodeSnippet; the fields a reply lacks are
\* rendered as '' and 0
NoSnippetReply ==
  [status |-> "", message |-> "", details |-> "", codeType |-> "",
   usesModernSyntax |-> FALSE, code |-> "", lines |-> 0]

NoSnippet == [status |-> "idle", selector |-> "", pathOnly |-> "",
              visibleRegion |-> "", task |-> NoTask, reply |-> NoSnippetReply]

BatInit == bat = NoBatch /\ snip = NoSnippet

IsHtml(r) == r.codeType = "html"

IsTypescript(r) == r.codeType \in {"typescript", "javascript"}

IsCss(r) == r.codeType \in {"css", "scss"}

IsOther(r) ==
  r.codeType # "" /\ r.codeType \notin {"html", "typescript", "javascript", "css", "scss"}

HasError(r) == r.error # ""

HasNoError(r) == r.error = ""

\* the reply with the results
SuccessReply(selectors, results) ==
  [status |-> "success",
   summary |-> [totalRequested |-> Len(selectors),
                successful |-> Len(SelectSeq(results, HasNoError)),
                failed |-> Len(SelectSeq(results, HasError))],
   groupedByType |-> [html |-> SelectSeq(results, IsHtml),
                      typescript |-> SelectSeq(results, IsTypescript),
                      css |-> SelectSeq(results, IsCss),
                      other |-> SelectSeq(results, IsOther)],
   allResults |-> results]

\* the reply of the empty-list guard and of the catch block
BatchErrorReply == [NoBatchReply EXCEPT !.status = "error"]

\* the tasks of a batch, each run up to its first await, by invocation
TasksOf(b, group) ==
  [p \in Procs |->
     IF SlotOf(p) <= Len(group)
     THEN TaskStart(b.selectors[group[SlotOf(p)]], group[SlotOf(p)])
     ELSE NoTask]

\* the tasks taskOf are started and the handler awaits Promise.all
Await(b, group, taskOf) ==
  /\ Len(group) <= Len(Slots)
  /\ bat' = [b EXCEPT !.group = group, !.tasks = taskOf, !.status = "awaiting"]
  /\ ext' = [p \in Procs |->
               IF taskOf[p].state = "pending"
               THEN Begun(taskOf[p].repoPath, taskOf[p].region) ELSE ext[p]]
  /\ pc' = [p \in Procs |->
              IF taskOf[p].state = "pending" THEN "extApi" ELSE pc[p]]
  /\ call' = [p \in Procs |->
                IF taskOf[p].state = "pending"
                THEN [NoCall EXCEPT !.op = "extract"] ELSE call[p]]
  /\ result' = [p \in Procs |->
                  IF taskOf[p].state = "pending" THEN NoResult ELSE result[p]]

\* one round of the loop starts: the tasks of the batch run, in batch order,
\* up to their first await, and the handler awaits Promise.all
Launch(b, group) == Await(b, group, TasksOf(b, group))

\* the test of the loop: the next batch, or the reply with the results
BatchLoop(b) ==
  IF b.i < Len(b.selectors)
  THEN Launch(b, Batch(Len(b.selectors), b.i, b.batchSize))
  ELSE /\ bat' = [b EXCEPT !.status = "replied",
                           !.reply = SuccessReply(b.selectors, b.results)]
       /\ UNCHANGED <<ext, pc, call, result>>

\* the tool is invoked
CallBatch(selectors, batchSize) ==
  /\ bat.status = "idle"
  /\ snip.status = "idle"
  /\ UNCHANGED <<snip, sections, walk, ncalls, rootListings, returns, retFull,
                 servedFull, addressed, anaVars, regVars, prjVars, qryVars>>
  /\ IF selectors = <<>>
     THEN /\ bat' = [NoBatch EXCEPT !.batchSize = batchSize, !.status = "replied",
                                    !.reply = BatchErrorReply]
          /\ UNCHANGED <<ext, pc, call, result>>
     ELSE BatchLoop([NoBatch EXCEPT !.selectors = selectors, !.batchSize = batchSize])

\* Promise.all of the batch is settled: a task is rejected, or every task is
\* fulfilled
BatchReady ==
  /\ bat.status = "awaiting"
  /\ \/ \E p \in Procs : bat.tasks[p].state = "rejected"
     \/ \A p \in Procs : bat.tasks[p].state # "pending"

\* the handler resumes after its await: the catch block when a task was
\* rejected, else the results of the batch are pushed in batch order and the
\* loop goes on
BatchResumed ==
  /\ BatchReady
  /\ bat.rounds < MaxRounds
  /\ UNCHANGED <<snip, sections, walk, ncalls, rootListings, returns, retFull,
                 servedFull, addressed, anaVars, regVars, prjVars, qryVars>>
  /\ IF \E p \in Procs : bat.tasks[p].state = "rejected"
     THEN /\ bat' = [bat EXCEPT !.status = "replied", !.reply = BatchErrorReply]
          /\ UNCHANGED <<ext, pc, call, result>>
     ELSE BatchLoop([bat EXCEPT
            !.results = @ \o [j \in 1..Len(bat.group) |-> bat.tasks[Slots[j]].entry],
            !.i = @ + bat.batchSize,
            !.rounds = @ + 1])

\* a step of the extraction of task p: when the extraction returns, the task
\* goes on to its result
TaskSettles(p) ==
  bat' = IF pc'[p] = "done" /\ bat.tasks[p].state = "pending"
         THEN [bat EXCEPT !.tasks[p] =
                 Settle(@, bat.selectors[bat.tasks[p].index], ext'[p].out)]
         ELSE bat

(***************************************************************************)
(* extractAngularCodeSnippet tool: one extraction                           *)
(***************************************************************************)

\* the selector, pathOnly and visibleRegion arguments: a docs-code element
\* with a header, one without, a path, and neither
SnippetInputs ==
  { <<DocsSelector.selector, "", "">>, <<PlainDocsElement, "", "">>,
    <<"", "adev/a.ts", "R">>, <<"", "", "">> }

\* the codeType of the reply: by the extension of pathOnly, else by the code
SnippetCodeType(pathOnly, code) ==
  IF pathOnly # ""
  THEN IF EndsWith(pathOnly, ".html") THEN "html"
       ELSE IF EndsWith(pathOnly, ".ts") THEN "typescript"
       ELSE IF EndsWith(pathOnly, ".js") THEN "javascript"
       ELSE IF EndsWith(pathOnly, ".css") THEN "css"
       ELSE "unknown"
  ELSE IF Includes(code, "<") /\ Includes(code, ">") THEN "html"
  ELSE IF Includes(code, "import") \/ Includes(code, "class")
            \/ Includes(code, "interface")
       THEN "typescript"
  ELSE "unknown"

\* code.split('\n').length
LineCount(code) == Cardinality({ k \in 1..Len(code) : CharAt(code, k) = "\n" }) + 1

\* the reply once the extraction has returned code: the catch block when
\* code.startsWith throws on what is no string, the error reply for no code
\* and for code that starts with the error marker, the code otherwise
SnippetReply(pathOnly, code) ==
  IF code.kind # "string"
  THEN [NoSnippetReply EXCEPT !.status = "error", !.message = "thrown"]
  ELSE IF code.text = "" \/ StartsWith(code.text, ErrorMarker)
  THEN [NoSnippetReply EXCEPT !.status = "error", !.message = "not extracted",
                              !.details = code.text]
  ELSE [NoSnippetReply EXCEPT
          !.status = "success",
          !.codeType = SnippetCodeType(pathOnly, code.text),
          !.usesModernSyntax = Includes(code.text, "@if") \/ Includes(code.text, "@for")
                                 \/ Includes(code.text, "@switch"),
          !.code = code.text,
          !.lines = LineCount(code.text)]

\* the handler up to its await of the extraction task starts, or to its
\* reply when there is nothing to await
SnippetBegins(p, sn, task) ==
  IF task.state = "pending"
  THEN /\ snip' = [sn EXCEPT !.status = "awaiting", !.task = task]
       /\ ext' = [ext EXCEPT ![p] = Begun(task.repoPath, task.region)]
       /\ pc' = [pc EXCEPT ![p] = "extApi"]
       /\ call' = [call EXCEPT ![p] = [NoCall EXCEPT !.op = "extract"]]
       /\ result' = [result EXCEPT ![p] = NoResult]
  ELSE /\ snip' = [sn EXCEPT
                     !.status = "replied",
                     !.reply = IF Includes(sn.selector, DocsCodeOpen)
                               THEN SnippetReply(sn.pathOnly, StringValue(task.entry.code))
                               ELSE [NoSnippetReply EXCEPT !.status = "error",
                                                           !.message = "incomplete"]]
       /\ UNCHANGED <<ext, pc, call, result>>

\* the tool is invoked: extractDocsCodeExample for a docs-code element,
\* extractCodeFromDocumentationPath for a path, the error reply otherwise
CallSnippet(p, selector, pathOnly, visibleRegion) ==
  /\ bat.status = "idle"
  /\ snip.status = "idle"
  /\ UNCHANGED <<bat, sections, walk, ncalls, rootListings, returns, retFull,
                 servedFull, addressed, anaVars, regVars, prjVars, qryVars>>
  /\ SnippetBegins(p, [NoSnippet EXCEPT !.selector = selector, !.pathOnly = pathOnly,
                                        !.visibleRegion = visibleRegion],
                   TaskStart([selector |-> selector, path |-> pathOnly,
                              visibleRegion |-> visibleRegion, description |-> ""], 1))

\* a step of the extraction the tool awaits: when the extraction returns, the
\* handler replies
SnippetSettles(p) ==
  snip' = IF pc'[p] = "done" /\ snip.status = "awaiting"
          THEN [snip EXCEPT !.status = "replied",
                  !.reply = SnippetReply(snip.pathOnly, CodeOf(snip.task, ext'[p].out))]
          ELSE snip

\* a step of an extraction, and what the tool that awaits it does then
Settles(p) == TaskSettles(p) /\ SnippetSettles(p)

\* listings that fail
FailedListings == ListingResponses({})

\* a bulk extraction or a single one; the continuation of a settled
\* Promise.all runs before any answer to a request is handled
BatNext ==
  \/ \E selectors \in SelectorLists, batchSize \in BatchSizes :
       CallBatch(selectors, batchSize)
  \/ BatchResumed
  \/ \E in \in SnippetInputs : CallSnippet(Slots[1], in[1], in[2], in[3])
  \/ \E p \in Procs :
       /\ ~BatchReady
       /\ \/ \E resp \in ApiResponses : ExtApiAnswered(p, resp) /\ Settles(p)
          \/ \E resp \in FileResponses : ExtRawAAnswered(p, resp) /\ Settles(p)
          \/ \E resp \in FileResponses : ExtRawBAnswered(p, resp) /\ Settles(p)
          \/ ExtSourcesReturned(p) /\ Settles(p)
          \/ \E resp \in FailedListings : RootListed(p, resp)

(***************************************************************************)
(* Specifications                                                          *)
(***************************************************************************)

RegionParked == regText = "" /\ regName = "" /\ regOuts = <<>>

RegParked == RegionParked /\ docText = "" /\ docRuns = <<>>

ToolsParked == PrjInit /\ QryInit /\ ExtInit /\ BatInit

\* the Documentation Index under concurrent invocations
Init == IdxInit /\ AnaParked /\ RegParked /\ ToolsParked

Spec == Init /\ [][IdxNext]_vars

\* the Code Analyzer on one Code File
InitAnalyzer == IdxParked /\ AnaInit /\ RegParked /\ ToolsParked

SpecAnalyzer == InitAnalyzer /\ [][AnaNext]_vars

InitRegion == IdxParked /\ AnaParked /\ RegInit /\ ToolsParked

\* named-region extraction applied to a file and to its own output
SpecRegion == InitRegion /\ [][RegNext]_vars


InitProject == IdxParked /\ AnaParked /\ RegParked /\ PrjInit /\ QryInit /\ ExtInit /\ BatInit

\* the analyzeProject tool on a list of files
SpecProject == InitProject /\ [][PrjNext]_vars

InitQuery == IdxInit /\ AnaParked /\ RegParked /\ PrjInit /\ QryInit /\ ExtInit /\ BatInit

\* the Documentation Index under concurrent walks, searches and
\* getBestPractices tool invocations
SpecQuery == InitQuery /\ [][QryNext]_vars

InitExtract == IdxParked /\ AnaParked /\ RegParked /\ PrjInit /\ QryInit /\ ExtInit /\ BatInit

\* code extraction by path on an index that nothing else uses
SpecExtract == InitExtract /\ [][ExtNext]_vars

InitBatch == IdxParked /\ AnaParked /\ RegParked /\ PrjInit /\ QryInit /\ ExtInit /\ BatInit

\* one bulk extraction on an index that nothing else uses
SpecBatch == InitBatch /\ [][BatNext]_vars

InitPractices == IdxParked /\ AnaParked /\ PracInit /\ ToolsParked

\* best-practice passage extraction applied to a document and to the
\* documents left when trigger occurrences are deleted from it
SpecPractices == InitPractices /\ [][PracNext]_vars
(***************************************************************************)
(* Documentation Index: properties                                         *)
(***************************************************************************)

\* the awaits of a tree-discovery walk
WalkPcs == {"listRoot", "listDir", "fetchDirFile", "fetchFile"}

\* the invocations whose walk of Source s is in progress
WalkersOf(s) == { q \in Procs : pc[q] \in WalkPcs /\ walk[q].src = s }

\* C1: once a topic(sourceId, topicId) call has returned the topic with
\* non-empty content, no later topic() call for the same identifiers (one
\* that started after that return) returns the topic with empty content.
C1_NoRegressToEmpty ==
  \A p \in Procs :
    (pc[p] = "done" /\ call[p].op = "topic" /\ call[p].sawFull
       /\ result[p].kind = "topic")
      => result[p].topic.content # ""

C3_ReturnsAfterDiscovery ==
  [][\A s \in SourceIds :
       (returns'[s] > returns[s] /\ WalkersOf(s)' = WalkersOf(s))
         => WalkersOf(s) = {}]_vars

\* every Section attached to a Source has at least one Topic, and a
\* returned sources(F) of a known framework is a non-empty list
C4_NoEmptySection ==
  /\ \A s \in SourceIds : \A i \in 1..Len(sections[s]) :
       Len(sections[s][i].topics) >= 1
  /\ \A p \in Procs :
       (pc[p] = "done" /\ call[p].op = "sources"
          /\ call[p].framework \in DOMAIN FrameworkSources)
         => Len(result[p].sources) >= 1

\* C4: in every reachable state sources(F) of a known framework is a
\* non-empty list and every attached Section has at least one Topic, and no
\* step removes a Topic from an attached Section (or detaches a Section).
C4_SectionsNeverEmpty ==
  /\ []C4_NoEmptySection
  /\ [][\A s \in SourceIds :
          /\ Len(sections'[s]) >= Len(sections[s])
          /\ \A i \in 1..Len(sections[s]) :
               /\ sections'[s][i].id = sections[s][i].id
               /\ Len(sections'[s][i].topics) >= Len(sections[s][i].topics)
               /\ \A j \in 1..Len(sections[s][i].topics) :
                    sections'[s][i].topics[j] = sections[s][i].topics[j]]_vars

\* C4 witness: an Angular walk has returned with a Section attached, and a
\* logical section that it ended with no Topic in is not attached.
C4_Witness ==
  /\ returns["angular-github"] >= 1
  /\ Len(sections["angular-github"]) >= 1
  /\ \E k \in Range(LogicalKeys) :
       \A i \in 1..Len(sections["angular-github"]) :
         sections["angular-github"][i].id # LogicalSectionId(k)

\* C5: no attached Section holds two Topics with the same identifier.
C5_TopicIdsUnique ==
  \A s \in SourceIds : \A i \in 1..Len(sections[s]) :
    \A a, b \in 1..Len(sections[s][i].topics) :
      a # b => sections[s][i].topics[a].id # sections[s][i].topics[b].id

\* C29: no Source holds two Sections with the same identifier, also while
\* walks are in progress.
C29_SectionIdsUnique ==
  \A s \in SourceIds : \A a, b \in 1..Len(sections[s]) :
    a # b => sections[s][a].id # sections[s][b].id


\* C17: a getDocumentationSources call whose framework argument, lowercased,
\* is not a key of the framework table returns the empty list: it returns
\* normally, and what it returns holds no Source.
C17_UnknownFrameworkEmpty ==
  \A p \in Procs :
    (pc[p] = "done" /\ call[p].op = "sources"
       /\ call[p].framework \notin DOMAIN FrameworkSources)
      => (result[p].kind = "sources" /\ result[p].sources = <<>>)

\* a and b are one topic, whether or not its content was fetched
SameTopic(a, b) == a.id = b.id /\ a.title = b.title /\ a.url = b.url

\* C18: a searchTopics call with the empty query returns every topic the
\* Source's Sections held when it was called, each once, in section order
\* then topic order: a topic that carried content is returned as it is held,
\* a topic without content is returned as fetched, or as it is held when the
\* fetch gave nothing.  The Sections of a Source are only ever appended to,
\* so these topics open the list of the topics the Source holds at the return.
C18_EmptyQueryReturnsAll ==
  \A p \in Procs :
    (pc[p] = "done" /\ call[p].op = "search" /\ scan[p].query = "")
      => /\ Len(scan[p].out) = Len(scan[p].held)
         /\ \A i \in 1..Len(scan[p].held) :
              /\ SameTopic(scan[p].out[i], scan[p].held[i])
              /\ scan[p].held[i].content # "" => scan[p].out[i] = scan[p].held[i]
         /\ call[p].sourceId \in SourceIds
              => /\ Len(scan[p].held) <= Len(Flatten(sections[call[p].sourceId]))
                 /\ \A i \in 1..Len(scan[p].held) :
                      Flatten(sections[call[p].sourceId])[i] = scan[p].held[i]

\* C18 witness: a search with the empty query has returned two topics or
\* more, one with the content it fetched and one whose fetch gave nothing.
C18_Witness ==
  \E p \in Procs :
    /\ pc[p] = "done" /\ call[p].op = "search" /\ scan[p].query = ""
    /\ Len(scan[p].out) >= 2
    /\ \E i, j \in 1..Len(scan[p].out) :
         scan[p].out[i].content = "" /\ scan[p].out[j].content # ""

\* the component occurs in the title of the topic, in the content it
\* carries, or in a content that may be fetched for it
MayContain(topic, component) ==
  \E text \in DocTexts \cup {topic.title, topic.content} :
    Includes(ToLowerCase(text), component)

\* C19: the getBestPractices tool, called for a supported framework and a
\* component that no topic of the framework's Source contains, replies with
\* the warning status and no practice, and getBestPractices has returned
\* the empty list without throwing, whatever the index held and whatever
\* the walk and the fetches of the call gave.
C19_NoMatchWarns ==
  \A p \in Procs :
    (/\ pc[p] = "done" /\ call[p].op = "practices"
     /\ call[p].framework \in ToolFrameworks
     /\ \A i \in 1..Len(scan[p].held) : ~MayContain(scan[p].held[i], scan[p].query))
      => /\ reply[p] = [status |-> "warning", count |-> 0]
         /\ result[p].kind = "practices"
         /\ scan[p].practices = <<>>

\* C19 witness: the tool has replied to a call whose loop went over two
\* topics or more, none containing the component, one of them fetched.
C19_Witness ==
  \E p \in Procs :
    /\ pc[p] = "done" /\ call[p].op = "practices"
    /\ Len(scan[p].held) >= 2
    /\ \A i \in 1..Len(scan[p].held) : ~MayContain(scan[p].held[i], scan[p].query)
    /\ \E i \in 1..Len(scan[p].held) : scan[p].held[i].content = ""
    /\ reply[p].status = "warning"
(***************************************************************************)
(* Code Analyzer: properties                                               *)
(***************************************************************************)

\* the framework an entity kind belongs to
FrameworkOfKind(fileType) ==
  IF StartsWith(fileType, "nestjs_") THEN "nestjs"
  ELSE IF StartsWith(fileType, "angular_") THEN "angular"
  ELSE ""

\* C6: when building or walking the syntax tree raised an error, analyzeFile
\* has returned (it did not throw) and the issue list of the Analysis Result
\* is empty, also when issues had been pushed before the error.
C6_ErrorYieldsNoIssues ==
  (analysis.done /\ analysis.raised) => analysis.issues = <<>>

\* C7: for a file of a NestJS or an Angular kind, generateFixSuggestions asks
\* the Documentation Index, issue by issue, with the kind's framework and
\* the issue's description, and appends at most two passages of at most 200
\* characters each.
C7_QueriesKindFramework ==
  (suggested.done /\ FrameworkOfKind(analysis.file.fileType) # "") =>
    /\ Len(suggested.queries) = Len(analysis.issues)
    /\ \A i \in 1..Len(suggested.queries) :
         /\ suggested.queries[i].framework = FrameworkOfKind(analysis.file.fileType)
         /\ suggested.queries[i].component = analysis.issues[i].description
         /\ Len(suggested.related[i]) <= 2
         /\ \A k \in 1..Len(suggested.related[i]) : Len(suggested.related[i][k]) <= 200

\* C8: the detectFrameworkAndFileType tool reports 'nestjs' for every NestJS
\* kind, 'angular' for every Angular kind, and the empty framework only for
\* test, configuration and unknown.
C8_ReportsKindFramework ==
  reported # NoReport => reported.framework = FrameworkOfKind(reported.fileType)

\* C9: detectFileType is idempotent (applied to its own result it returns a
\* file with the same path, content, language and kind), and a file whose
\* kind is already known is returned unchanged.
C9_ClassifyIdempotent ==
  /\ \A i \in 2..Len(outs) : outs[i] = outs[i - 1]
  /\ (Len(outs) >= 1 /\ file.fileType # CodeFileType.UNKNOWN) => outs[1] = file

\* C9 witness: a file of unknown language and kind was classified, which set
\* both, and the result was classified again.
C9_Witness ==
  /\ Len(outs) >= 2
  /\ file.fileType = CodeFileType.UNKNOWN /\ file.language = CodeLanguage.UNKNOWN
  /\ outs[1].fileType = CodeFileType.NESTJS_GUARD
  /\ outs[1].language = CodeLanguage.JAVASCRIPT


\* C16: a file the classifier leaves with kind unknown gets an Analysis
\* Result with an empty issue list, and no syntax tree is built for it.
C16_UnknownShortCircuits ==
  (analysis.done /\ analysis.file.fileType = CodeFileType.UNKNOWN)
    => (analysis.issues = <<>> /\ ~analysis.built)

\* C16 witness: a TypeScript file that no path rule and no content rule
\* matches was analyzed, and a non-code file was.
C16_Witness ==
  /\ analysis.done
  /\ analysis.file.fileType = CodeFileType.UNKNOWN
  /\ analysis.file.language = CodeLanguage.TYPESCRIPT
  /\ analysis.file.content = SrcPlainClass

\* the first lines of the suggestion of an issue: description, severity, span
SuggestionHead(issue) ==
  "Issue: " \o issue.description \o "\n"
  \o "Severity: " \o issue.severity \o "\n"
  \o "Location: Lines " \o ToString(issue.lineStart) \o "-" \o ToString(issue.lineEnd) \o "\n\n"
  \o "Suggested Fix:\n" \o issue.suggestedFix \o "\n\n"

\* C20: generateFixSuggestions returns one entry per issue, the i-th entry
\* stating the i-th issue's description, severity, line span and suggested
\* fix, whatever the index answered to the lookups.
C20_OneSuggestionPerIssue ==
  suggested.done =>
    /\ Len(suggested.suggestions) = Len(analysis.issues)
    /\ \A i \in 1..Len(analysis.issues) :
         StartsWith(suggested.suggestions[i], SuggestionHead(analysis.issues[i]))

\* C20 witness: suggestions were generated for a result with two issues of
\* different descriptions.
C20_Witness ==
  /\ suggested.done
  /\ Len(analysis.issues) >= 2
  /\ analysis.issues[1].description # analysis.issues[2].description

\* the issues of one severity, in issue order
IssuesOfSeverity(issues, severity) ==
  SelectSeq(issues, LAMBDA issue : issue.severity = severity)

\* the case of C14: analyzeCodeFile (language and kind not preset) with
\* framework 'nestjs' on a TypeScript file whose path contains
\* '.controller.' and whose content no content rule recognizes, the walk
\* having run to its end
C14_Case ==
  /\ analysis.done /\ ~analysis.raised
  /\ framework = "nestjs"
  /\ file.fileType = CodeFileType.UNKNOWN
  /\ analysis.file.language = CodeLanguage.TYPESCRIPT
  /\ Includes(file.path, ".controller.")
  /\ ContentFileType(file.content) = CodeFileType.UNKNOWN

UndecoratedHandlers(c) ==
  SelectSeq(c.methods, LAMBDA method :
    /\ \A i \in 1..Len(method.decorators) : method.decorators[i] \notin HttpMethodDecorators
    /\ method.modifiers \cap {"private", "protected"} = {})

\* the imported names of a tree that occur once only, and the parameters of
\* a class's first constructor that carry no access modifier
UnusedImportCount(tree) ==
  Len(Concat([i \in 1..Len(tree.imports) |->
        SelectSeq(tree.imports[i].namedImports, LAMBDA n : n.references <= 1)]))

BareParameterCount(c) ==
  IF c.constructors = <<>> THEN 0
  ELSE Len(SelectSeq(c.constructors[1].parameters, LAMBDA param :
             param.modifiers \cap {"private", "protected", "public"} = {}))

\* the case of C15: a controller file whose one class carries @Controller
\* and has exactly one public method without an HTTP-verb decorator, the
\* walk having run to its end
C15_Case ==
  /\ analysis.done /\ ~analysis.raised
  /\ analysis.file.fileType = CodeFileType.NESTJS_CONTROLLER
  /\ IsScript(analysis.file.language)
  /\ LET classes == createSourceFile(analysis.file.content).classes
     IN  /\ Len(classes) = 1
         /\ HasDecorator(classes[1], "Controller")
         /\ Len(UndecoratedHandlers(classes[1])) = 1

ClassesOf(f) == createSourceFile(f.content).classes

\* the walk of the analyzed file was done and ran to its end
WalkedToEnd == analysis.done /\ analysis.built /\ ~analysis.raised

\* the analysis holds an issue with this identifier
HasIssue(id) == \E i \in 1..Len(analysis.issues) : analysis.issues[i].id = id

\* C22: in the kind-specific pass every entry of the checklist is evaluated
\* for every class, whatever the other entries gave: a class of a NestJS
\* module file whose name does not end in 'Module' gets the naming issue,
\* and a class of an Angular component file that has ngOnInit without
\* declaring OnInit gets the interface issue, also when the class lacks the
\* defining annotation.
C22_EntriesIndependent ==
  WalkedToEnd =>
    \A k \in 1..Len(ClassesOf(analysis.file)) :
      LET c == ClassesOf(analysis.file)[k] IN
        /\ (/\ analysis.file.fileType = CodeFileType.NESTJS_MODULE
            /\ c.name # "" /\ ~EndsWith(c.name, "Module"))
             => HasIssue("module-naming-convention-" \o c.name)
        /\ (/\ analysis.file.fileType = CodeFileType.ANGULAR_COMPONENT
            /\ HasMethod(c, "ngOnInit") /\ ~Implements(c, "OnInit"))
             => HasIssue("missing-oninit-interface-" \o NameOrUnknown(c))

\* the entity kinds of the two frameworks
EntityKinds ==
  { CodeFileType.NESTJS_CONTROLLER, CodeFileType.NESTJS_SERVICE,
    CodeFileType.NESTJS_MODULE, CodeFileType.NESTJS_MIDDLEWARE,
    CodeFileType.NESTJS_PIPE, CodeFileType.NESTJS_GUARD,
    CodeFileType.NESTJS_INTERCEPTOR, CodeFileType.ANGULAR_COMPONENT,
    CodeFileType.ANGULAR_SERVICE, CodeFileType.ANGULAR_MODULE,
    CodeFileType.ANGULAR_DIRECTIVE, CodeFileType.ANGULAR_PIPE }

\* the annotation that defines a kind
DefiningAnnotation(fileType) ==
  CASE fileType = CodeFileType.NESTJS_CONTROLLER -> "Controller"
    [] fileType = CodeFileType.NESTJS_MODULE     -> "Module"
    [] fileType = CodeFileType.ANGULAR_COMPONENT -> "Component"
    [] fileType = CodeFileType.ANGULAR_MODULE    -> "NgModule"
    [] fileType = CodeFileType.ANGULAR_DIRECTIVE -> "Directive"
    [] fileType = CodeFileType.ANGULAR_PIPE      -> "Pipe"
    [] OTHER -> "Injectable"

\* the analysis holds an error-severity issue on the lines of class c that
\* states a missing annotation
HasAnnotationError(c) ==
  \E i \in 1..Len(analysis.issues) :
    /\ analysis.issues[i].severity = IssueSeverity.ERROR
    /\ StartsWith(analysis.issues[i].description, "Missing @")
    /\ analysis.issues[i].lineStart = c.startLine
    /\ analysis.issues[i].lineEnd = c.endLine

\* C23: for every NestJS and Angular entity kind, middleware included, a
\* class of a file of that kind that lacks the kind's defining annotation
\* gets an error-severity issue.
C23_MissingAnnotationIsError ==
  (WalkedToEnd /\ analysis.file.fileType \in EntityKinds) =>
    \A k \in 1..Len(ClassesOf(analysis.file)) :
      ~HasDecorator(ClassesOf(analysis.file)[k], DefiningAnnotation(analysis.file.fileType))
        => HasAnnotationError(ClassesOf(analysis.file)[k])

\* the line spans of the nodes of a class: the class, its decorators, its
\* methods and the parameters of its constructors
ClassSpans(c) ==
  {<<c.startLine, c.endLine>>}
    \cup {<<c.decorators[i].startLine, c.decorators[i].endLine>> : i \in 1..Len(c.decorators)}
    \cup {<<c.methods[i].startLine, c.methods[i].endLine>> : i \in 1..Len(c.methods)}
    \cup UNION {{<<c.constructors[i].parameters[j].startLine,
                   c.constructors[i].parameters[j].endLine>> :
                   j \in 1..Len(c.constructors[i].parameters)} :
                i \in 1..Len(c.constructors)}

\* the line spans of the nodes of a syntax tree
NodeSpans(tree) ==
  {<<tree.imports[i].startLine, tree.imports[i].endLine>> : i \in 1..Len(tree.imports)}
    \cup {<<tree.comments[i].startLine, tree.comments[i].endLine>> : i \in 1..Len(tree.comments)}
    \cup UNION {ClassSpans(tree.classes[i]) : i \in 1..Len(tree.classes)}

\* C24: every issue spans the first to the last line of a node of the
\* syntax tree, within the lines of the analyzed file; the issue of a
\* component with ngOnInit that does not declare OnInit included.
C24_SpanIsNodeSpan ==
  analysis.done =>
    \A i \in 1..Len(analysis.issues) :
      /\ 1 <= analysis.issues[i].lineStart
      /\ analysis.issues[i].lineStart <= analysis.issues[i].lineEnd
      /\ analysis.issues[i].lineEnd <= LineCount(analysis.file.content)
      /\ <<analysis.issues[i].lineStart, analysis.issues[i].lineEnd>>
           \in NodeSpans(createSourceFile(analysis.file.content))

\* C26: a TypeScript or JavaScript file that no path rule matches and whose
\* content holds @Injectable and 'Guard' is classified as a guard, whatever
\* else the content holds.
C26_InjectableGuardIsGuard ==
  (/\ Len(outs) >= 1
   /\ file.fileType = CodeFileType.UNKNOWN
   /\ IsScript(outs[1].language)
   /\ PathFileType(file.path) = CodeFileType.UNKNOWN
   /\ Includes(file.content, "@Injectable")
   /\ Includes(file.content, "Guard"))
    => outs[1].fileType = CodeFileType.NESTJS_GUARD

\* the framework argument a second call would differ in
OtherFramework(fw) == IF fw = "angular" THEN "nestjs" ELSE "angular"

\* an issue of the common pass, by its identifier
IsCommonIssue(issue) ==
  StartsWith(issue.id, "unused-import-") \/ StartsWith(issue.id, "commented-code-")

IsKindIssue(issue) == ~IsCommonIssue(issue)

\* the issues of the kind-specific pass among the issues of an analysis
KindIssues(issues) == SelectSeq(issues, IsKindIssue)

\* C30: the kind and the language analyzeFile assigns, and the issues of the
\* kind-specific pass, are those of a call on the same file with the other
\* framework argument whose walk ends at the same point.
C30_FrameworkArgumentIgnored ==
  analysis.done =>
    /\ analysis.file = detectFileType(file)
    /\ KindIssues(analysis.issues)
         = KindIssues(findIssues(detectFileType(file), OtherFramework(framework),
                                 [raised |-> analysis.raised, at |-> analysis.pushed]))

\* C30 witness: a file of a NestJS kind was analyzed with the framework
\* argument 'angular', and both the common and the kind-specific pass
\* raised issues.
C30_Witness ==
  /\ analysis.done /\ ~analysis.raised
  /\ framework = "angular"
  /\ analysis.file.fileType = CodeFileType.NESTJS_CONTROLLER
  /\ file.fileType = CodeFileType.UNKNOWN
  /\ \E i \in 1..Len(analysis.issues) : IsCommonIssue(analysis.issues[i])
  /\ KindIssues(analysis.issues) # <<>>
(***************************************************************************)
(* Named-region extraction: properties                                     *)
(***************************************************************************)

\* C10: extracting region R from the output of an extraction of R returns
\* that output unchanged.
C10_ExtractFixedPoint ==
  \A i \in 2..Len(regOuts) : regOuts[i] = regOuts[i - 1]


(***************************************************************************)
(* analyzeProject: properties                                              *)
(***************************************************************************)

\* C13: the summary of analyzeProject: totalFiles is the number of input
\* files, totalIssues the sum of the per-file issue counts, the error,
\* warning and info counts add up to totalIssues, and filesWithIssues is
\* the number of files with at least one issue.
C13_SummaryAddsUp ==
  prjPc = "done" =>
    LET summary == prjReply.projectSummary
        results == prjReply.results
        counts  == [k \in 1..Len(results) |-> Len(results[k].issues)]
    IN  /\ Len(results) = Len(prjFiles)
        /\ \A k \in 1..Len(results) : results[k].fileInfo.path = prjFiles[k].path
        /\ summary.totalFiles = Len(prjFiles)
        /\ summary.totalIssues = Sum(counts)
        /\ summary.issuesBySeverity.error + summary.issuesBySeverity.warning
             + summary.issuesBySeverity.info = summary.totalIssues
        /\ summary.filesWithIssues = Cardinality({ k \in 1..Len(results) : counts[k] > 0 })

\* C13 witness: three files with two errors, no issue and one warning:
\* totalIssues 3, error 2, warning 1, filesWithIssues 2.
C13_Witness ==
  /\ prjPc = "done"
  /\ [k \in 1..Len(prjReply.results) |-> Len(prjReply.results[k].issues)] = <<2, 0, 1>>
  /\ prjReply.projectSummary.totalFiles = 3
  /\ prjReply.projectSummary.totalIssues = 3
  /\ prjReply.projectSummary.issuesBySeverity = [error |-> 2, warning |-> 1, info |-> 0]
  /\ prjReply.projectSummary.filesWithIssues = 2

(***************************************************************************)
(* Code extraction by path: properties                                     *)
(***************************************************************************)

\* the strategies of extractCodeFromDocumentationPath, in the order of the code
Strategies == <<"direct", "raw", "search">>

\* an extraction by path has returned, having tried at least one strategy
Extracted(p) == pc[p] = "done" /\ call[p].op = "extract" /\ ext[p].repoPath # ""

\* every strategy that ended has failed
AllFailed(trail) == \A k \in 1..Len(trail) : trail[k].outcome = "failed"

\* the returned value is the placeholder of the extraction
IsPlaceholder(e) ==
  /\ e.out = StringValue(Placeholder(e.at.cleanPath, e.visibleRegion))
  /\ StartsWith(e.out.text, ErrorMarker)

\* C12 as stated: an extraction returns the placeholder exactly when all
\* three strategies have been tried and have failed.
C12_PlaceholderWhenAllThreeFailed ==
  \A p \in Procs :
    Extracted(p) =>
      (IsPlaceholder(ext[p]) <=> (Len(ext[p].trail) = 3 /\ AllFailed(ext[p].trail)))

\* C12: the strategies start in the order direct fetch, raw-URL fetch,
\* filename search, each only after the one before it has failed, so that
\* nothing is tried after a strategy that returned; what the extraction
\* returns is the placeholder, which starts with the error marker, exactly
\* when every strategy that was tried has failed, and these are all three,
\* or the first two when the path ends with no file name to search for.
C12_FallbackOrder ==
  \A p \in Procs :
    LET e == ext[p] IN
      /\ Len(e.started) <= 3
      /\ \A k \in 1..Len(e.started) : e.started[k] = Strategies[k]
      /\ Len(e.trail) \in {Len(e.started) - 1, Len(e.started)} \cap Nat
      /\ \A k \in 1..Len(e.trail) : e.trail[k].strategy = e.started[k]
      /\ \A k \in 1..Len(e.trail) :
           k < Len(e.started) => e.trail[k].outcome = "failed"
      /\ Extracted(p) =>
           /\ Len(e.trail) = Len(e.started)
           /\ IsPlaceholder(e) <=> AllFailed(e.trail)
           /\ AllFailed(e.trail) =>
                \/ Len(e.trail) = 3
                \/ Len(e.trail) = 2 /\ FileName(e.at.cleanPath) = ""
           /\ e.out.kind # "none"

\* C12 witness: the direct fetch and the raw-URL fetch have failed and the
\* filename search has returned the example of a topic.
C12_Witness ==
  \E p \in Procs :
    /\ Extracted(p)
    /\ ext[p].trail = << [strategy |-> "direct", outcome |-> "failed"],
                         [strategy |-> "raw", outcome |-> "failed"],
                         [strategy |-> "search", outcome |-> "returned"] >>
    /\ ext[p].out = StringValue("<p>")

(***************************************************************************)
(* extractMultipleCodeSnippets: properties                                 *)
(***************************************************************************)

\* the extractions in flight: the invocations suspended at an await
InFlight == { p \in Procs : pc[p] \notin {"idle", "done"} }

\* the group that starts at offset i: the next batchSize selectors
GroupAt(n, i, batchSize) == [k \in 1..Least({batchSize, n - i}) |-> i + k]

\* C11: for a positive batchSize and a non-empty selector list, the batch
\* awaited is the group of the next batchSize selectors, the extractions in
\* flight are extractions of that group and at most batchSize many, and the
\* tool replies with a result list that has one entry per selector, in
\* selector order.
C11_BatchedInOrder ==
  (bat.status # "idle" /\ bat.batchSize >= 1 /\ bat.selectors # <<>>) =>
    /\ bat.status = "awaiting" =>
         /\ bat.group = GroupAt(Len(bat.selectors), bat.i, bat.batchSize)
         /\ \A p \in InFlight : \E j \in 1..Len(bat.group) :
              bat.tasks[p].index = bat.group[j]
    /\ Cardinality(InFlight) <= bat.batchSize
    /\ bat.status = "replied" =>
         /\ bat.reply.status = "success"
         /\ Len(bat.reply.allResults) = Len(bat.selectors)
         /\ \A k \in 1..Len(bat.selectors) :
              bat.reply.allResults[k].description = bat.selectors[k].description

\* the selectors the loop has still to take
Remaining(b) == Len(b.selectors) - b.i

\* C27: the bulk extraction terminates for every batchSize: whenever the
\* handler resumes after a batch and goes on to await another one, fewer
\* selectors remain to be taken than before, so that the loop ends after at
\* most as many rounds as there are selectors.
C27_EveryRoundAdvances ==
  [][ (bat.status = "awaiting" /\ bat'.status = "awaiting"
         /\ bat'.rounds = bat.rounds + 1)
        => Remaining(bat') < Remaining(bat) ]_vars

\* the extraction of invocation p has tried all its strategies in vain
Exhausted(p) == IsPlaceholder(ext[p]) /\ AllFailed(ext[p].trail)

\* C28: when every strategy has failed for the path of a docs-code element,
\* with or without a header, the bulk extraction holds an error in the
\* result of the selector, which counts it as failed, and the single
\* extraction replies with the error status.
C28_FailedDocsCodeReported ==
  /\ \A p \in Procs :
       (bat.tasks[p].state = "fulfilled" /\ bat.tasks[p].docs /\ Exhausted(p))
         => HasError(bat.tasks[p].entry)
  /\ (snip.status = "replied" /\ snip.task.docs /\ Exhausted(Slots[1]))
       => snip.reply.status = "error"

(***************************************************************************)
(* Markdown Heuristics: properties of extractBestPractices                 *)
(***************************************************************************)

\* the positions of the code blocks of a document from position i on, as
\* the global match finds them
RECURSIVE CodeBlockStarts(_, _)
CodeBlockStarts(s, i) ==
  IF i > Len(s) THEN {}
  ELSE IF CodeBlockEnd(s, i, PracticeLanguages) = 0 THEN CodeBlockStarts(s, i + 1)
  ELSE {i} \cup CodeBlockStarts(s, CodeBlockEnd(s, i, PracticeLanguages))

\* the text before position b that the third heuristic looks at
TextBefore(s, b) ==
  SubSeq(s, IF b - PrecedingChars > 1 THEN b - PrecedingChars ELSE 1, b - 1)

\* the matches of the four heuristics, each taken on its own: the trigger
\* headings that occur, the list blocks that hold a trigger word, the code
\* blocks that follow a trigger phrase, the Do's and Don'ts heading
IndependentMatches(s) ==
  Cardinality({ n \in 1..Len(bestPracticeHeadings) :
                  \E i \in 1..Len(s) : TriggerHeadingEnd(s, i, bestPracticeHeadings[n]) # 0 })
  + Len(SelectSeq(BulletLists(s, 1), HasListTrigger))
  + Cardinality({ b \in CodeBlockStarts(s, 1) : HasTrigger(TextBefore(s, b), CodeTriggers) })
  + (IF DosTriggersAt(s) # {} THEN 1 ELSE 0)

\* C21: extractBestPractices returns as many passages as the four heuristics
\* match, each taken on its own, and a document from which one occurrence of
\* a trigger was deleted never gives more passages than the document before.
C21_PassagesMonotonic ==
  \A k \in 1..Len(docRuns) :
    /\ Len(docRuns[k].passages) = IndependentMatches(docRuns[k].text)
    /\ k > 1 => Len(docRuns[k].passages) <= Len(docRuns[k - 1].passages)

\* the level of the heading that starts a line at position j, 0 when no
\* heading starts there
HeadingLevelAt(s, j) ==
  IF (j = 1 \/ CharAt(s, j - 1) = "\n")
       /\ RunLength(SubSeq(s, j, Len(s)), {"#"}, TRUE) >= 1
       /\ j + RunLength(SubSeq(s, j, Len(s)), {"#"}, TRUE) <= Len(s)
       /\ IsSpace(CharAt(s, j + RunLength(SubSeq(s, j, Len(s)), {"#"}, TRUE)))
  THEN RunLength(SubSeq(s, j, Len(s)), {"#"}, TRUE)
  ELSE 0

\* the end of the section of the heading at position i: the next heading of
\* the same or of a higher level, or the end of the document
SectionEnd(s, i) ==
  Least({ j \in (i + 1)..(Len(s) + 1) :
            \/ j = Len(s) + 1
            \/ (HeadingLevelAt(s, j) # 0 /\ HeadingLevelAt(s, j) <= HeadingLevelAt(s, i)) })

\* the passages of a run hold this text
Returned(run, passage) == \E m \in 1..Len(run.passages) : run.passages[m] = passage

\* C25: for each trigger phrase, the passage of the first heading that
\* matches it runs up to the next heading of the same or of a higher level,
\* or to the end of the document; a deeper heading does not end it.
C25_PassageEndsAtPeerHeading ==
  \A k \in 1..Len(docRuns) : \A n \in 1..Len(bestPracticeHeadings) :
    LET s      == docRuns[k].text
        starts == { i \in 1..Len(s) : TriggerHeadingEnd(s, i, bestPracticeHeadings[n]) # 0 }
    IN  starts # {} =>
          Returned(docRuns[k], Trim(SubSeq(s, Least(starts), SectionEnd(s, Least(starts)) - 1)))
====
